---- MODULE Spec2Model ----
(***************************************************************************)
(* A model of the symbiants tick simulation: the nest grid, the ants, the  *)
(* deferred command queue and the ordered system schedule of one           *)
(* simulation tick.                                                        *)
(*                                                                         *)
(* One tick walks `pc` through NestSchedule.  A system that loops over the *)
(* ants takes one step per ant (`todo` holds the ants not yet visited);    *)
(* the other systems take one step for the whole pass.  Structural changes *)
(* are queued in `cmds` and applied by the next apply_deferred step.       *)
(* Random draws are nondeterministic choices.                              *)
(***************************************************************************)
EXTENDS Integers, Sequences, FiniteSets, TLC

VARIABLES
    tick,       \* completed simulation ticks
    pc,         \* index into NestSchedule of the system that runs next
    todo,       \* ants the running system has not visited yet
    grid,       \* cell -> the element the cell's cached entity holds
    pheromone,  \* cell -> pheromone on the cell
    ants,       \* ant -> its components
    changed,    \* ant -> change-detection flags, one per filtering system
    cmds,       \* the deferred command queue
    panicked,   \* a system has hit an unwrap/panic: the program has aborted
    ghost,      \* ant -> history counters used by the properties only
    fixed_time,         \* FixedTime: period and accumulated time of FixedUpdate
    is_fast_forwarding, \* IsFastForwarding
    pending_ticks,      \* PendingTicks
    story_playback_state \* StoryPlaybackState: "Playing" or "Paused"

\* The resources of the tick driver and the playback state.
clock == <<fixed_time, is_fast_forwarding, pending_ticks, story_playback_state>>

vars == <<tick, pc, todo, grid, pheromone, ants, changed, cmds, panicked, ghost,
          fixed_time, is_fast_forwarding, pending_ticks, story_playback_state>>

----------------------------------------------------------------------------
(* Bounds *)

W == 4
H == 5
MaxTicks == 4

(* Configuration *)

\* Chambering(3): the configured initial magnitude of the countdown.
ChamberSize == 3

\* Settings::get_surface_level with initial_dirt_percent = 3/4:
\* (h - h * 3/4) truncated to an integer.
SurfaceLevel == (4 * H - 3 * H) \div 4

----------------------------------------------------------------------------
(* Positions and the grid *)

Position(x, y) == [x |-> x, y |-> y]

Cells == [x : 0 .. W - 1, y : 0 .. H - 1]

Elements == {"Air", "Dirt", "Sand", "Food"}

\* What a cell's cached entity resolves to: an element, or nothing once the
\* entity has been despawned without a replacement.
Despawned == "Despawned"

\* AntInventory(None), Option::None.
None == "None"

PosAdd(p, d) == [x |-> p.x + d.x, y |-> p.y + d.y]

is_within_bounds(p) == p.x >= 0 /\ p.x < W /\ p.y >= 0 /\ p.y < H

\* world_map.is_element: false out of bounds and for a missing entity.
is_element(g, p, e) == is_within_bounds(p) /\ g[p] = e

\* The cached entity of an in-bounds cell no longer resolves to an Element.
is_dangling(g, p) == is_within_bounds(p) /\ g[p] = Despawned

\* A faulty variant that counts the surface row as underground.
IsUndergroundFromSurface(p) == p.y >= SurfaceLevel

is_underground(p) == p.y > SurfaceLevel

is_aboveground(p) == ~is_underground(p)

----------------------------------------------------------------------------
(* Orientation: a facing and an angle, eight in all *)

AllOrientations == [facing : {"Left", "Right"}, angle : {0, 90, 180, 270}]

Orientation(f, a) == [facing |-> f, angle |-> a]

rotate_forward(o) == [o EXCEPT !.angle = (o.angle + 270) % 360]

rotate_backward(o) == [o EXCEPT !.angle = (o.angle + 90) % 360]

turn_around(o) == [o EXCEPT !.facing = IF o.facing = "Left" THEN "Right" ELSE "Left"]

is_horizontal(o) == o.angle \in {0, 180}

is_rightside_up(o) == o.angle = 0

is_upside_down(o) == o.angle = 180

is_facing_north(o) == o.angle = 90

\* y grows downwards: the surface is above the underground rows.
get_forward_delta(o) ==
    CASE o.angle = 0   -> IF o.facing = "Right" THEN Position(1, 0) ELSE Position(-1, 0)
      [] o.angle = 90  -> Position(0, -1)
      [] o.angle = 180 -> IF o.facing = "Right" THEN Position(-1, 0) ELSE Position(1, 0)
      [] o.angle = 270 -> Position(0, 1)

get_ahead_position(o, p) == PosAdd(p, get_forward_delta(o))

get_below_position(o, p) == PosAdd(p, get_forward_delta(rotate_forward(o)))

get_above_position(o, p) == PosAdd(p, get_forward_delta(rotate_backward(o)))

----------------------------------------------------------------------------
(* The schedule of one tick: SimulationUpdate, fully chained *)

ExternalChain ==
    << "process_external_event", "apply_deferred",
       "denormalize_element", "apply_deferred" >>

GravityChain ==
    << "gravity_set_stability", "apply_deferred",
       "gravity_elements", "gravity_ants",
       "gravity_mark_stable", "gravity_mark_unstable", "apply_deferred" >>

FootingChain == << "ants_stabilize_footing_movement" >>

HungerChain ==
    << "ants_digestion", "ants_hunger_tick", "ants_hunger_act", "apply_deferred",
       "ants_regurgitate", "apply_deferred" >>

BirthingChain == << "ants_birthing", "apply_deferred" >>

SleepChain == << "ants_sleep", "ants_wake", "apply_deferred" >>

NestingChain ==
    << "ants_nesting_start", "ants_nesting_movement", "ants_nesting_action",
       "apply_deferred",
       "ants_nest_expansion", "apply_deferred" >>

PheromoneTickChain == << "pheromone_duration_tick", "apply_deferred" >>

TunnelChain ==
    << "ants_fade_tunnel_pheromone", "ants_tunnel_pheromone_move",
       "ants_add_tunnel_pheromone", "apply_deferred",
       "ants_remove_tunnel_pheromone", "apply_deferred",
       "ants_tunnel_pheromone_act", "apply_deferred" >>

ChamberChain ==
    << "ants_fade_chamber_pheromone",
       "ants_add_chamber_pheromone", "apply_deferred",
       "ants_remove_chamber_pheromone", "apply_deferred",
       "ants_chamber_pheromone_act", "apply_deferred" >>

WalkDigDropChain ==
    << "ants_walk", "ants_dig", "apply_deferred",
       "ants_drop", "apply_deferred" >>

DeathChain == << "on_ants_add_dead" >>

InitiativeChain == << "ants_initiative" >>

StoryChain == << "check_story_over", "update_story_elapsed_ticks" >>

TailChain ==
    << "apply_deferred", "update_element_exposure",
       "update_story_real_world_time", "set_rate_of_time" >>

\* Faulty orders of the chain, as a misplaced tuple would give them: the
\* initiative reset ahead of walking, walking ahead of the pheromone pipelines,
\* gravity behind walking.
InitiativeBeforeWalk ==
    ExternalChain \o GravityChain \o FootingChain \o HungerChain \o BirthingChain
        \o SleepChain \o NestingChain \o PheromoneTickChain \o TunnelChain
        \o ChamberChain \o InitiativeChain \o WalkDigDropChain \o DeathChain
        \o StoryChain \o TailChain

WalkBeforePheromones ==
    ExternalChain \o GravityChain \o FootingChain \o HungerChain \o BirthingChain
        \o SleepChain \o NestingChain \o PheromoneTickChain \o WalkDigDropChain
        \o TunnelChain \o ChamberChain \o DeathChain \o InitiativeChain
        \o StoryChain \o TailChain

GravityAfterWalk ==
    ExternalChain \o FootingChain \o HungerChain \o BirthingChain
        \o SleepChain \o NestingChain \o PheromoneTickChain \o TunnelChain
        \o ChamberChain \o WalkDigDropChain \o GravityChain \o DeathChain
        \o InitiativeChain \o StoryChain \o TailChain

\* The whole chain, in the order .chain() runs it.
NestSchedule ==
    ExternalChain \o GravityChain \o FootingChain \o HungerChain \o BirthingChain
        \o SleepChain \o NestingChain \o PheromoneTickChain \o TunnelChain
        \o ChamberChain \o WalkDigDropChain \o DeathChain \o InitiativeChain
        \o StoryChain \o TailChain

\* The FixedUpdate chain of the older SimulationPlugin.
LegacySchedule ==
    << "gravity_elements", "gravity_ants", "gravity_crush", "gravity_stability",
       "ants_walk", "ants_hunger", "ants_birthing", "ants_act",
       "ants_initiative", "apply_deferred",
       "periodic_save_world_state",
       "on_update_position", "on_update_ant_orientation", "on_update_ant_dead",
       "on_update_ant_inventory", "on_spawn_ant", "on_spawn_element",
       "update_game_time", "set_rate_of_time" >>

\* Systems of the schedule whose code is outside the modelled part: they take
\* their turn in the order and leave the modelled state alone.
OtherSystems == {
    "process_external_event", "denormalize_element",
    "gravity_set_stability", "gravity_mark_stable", "gravity_mark_unstable",
    "ants_stabilize_footing_movement",
    "ants_digestion", "ants_hunger_act", "ants_regurgitate",
    "ants_birthing", "ants_sleep", "ants_wake",
    "ants_nesting_start", "ants_nesting_movement", "ants_nesting_action",
    "ants_nest_expansion", "pheromone_duration_tick",
    "ants_fade_tunnel_pheromone", "ants_tunnel_pheromone_move",
    "ants_add_tunnel_pheromone", "ants_remove_tunnel_pheromone",
    "ants_tunnel_pheromone_act",
    "check_story_over", "update_story_elapsed_ticks",
    "update_element_exposure", "update_story_real_world_time", "set_rate_of_time" }

Running == NestSchedule[pc]

\* The systems of the chain take a step each, in order.  A system of
\* OtherSystems and an apply_deferred that finds the queue empty change nothing
\* and are passed over.
TakesStep(i, q) ==
    /\ NestSchedule[i] \notin OtherSystems
    /\ NestSchedule[i] = "apply_deferred" => q # <<>>

Least(S) == CHOOSE a \in S : \A b \in S : a <= b

\* No system after index i takes a step in this tick: the tick ends.
EndsTick(i, q) == \A j \in i + 1 .. Len(NestSchedule) : ~TakesStep(j, q)

StepAfter(i, q) ==
    IF EndsTick(i, q)
    THEN Least({j \in 1 .. Len(NestSchedule) : TakesStep(j, <<>>)})
    ELSE Least({j \in i + 1 .. Len(NestSchedule) : TakesStep(j, q)})

FirstStep == StepAfter(Len(NestSchedule), <<>>)

\* The systems that have already run in the current tick.
Ran == {NestSchedule[i] : i \in 1 .. pc - 1}

\* The ants of the initial worlds.
SurfaceAnts == {1, 2}

CliffAnts == {1}

TrenchAnts == {1, 2}

AntIds == SurfaceAnts \cup CliffAnts \cup TrenchAnts

\* The ant entities of the world.
AntSet == DOMAIN ants

----------------------------------------------------------------------------
(* Initiative *)

can_move(a) == a.has_movement

can_act(a) == a.has_action

\* A faulty variant of consume_movement that takes the action as well.
ConsumeMovementAndAction(a) == [a EXCEPT !.has_movement = FALSE, !.has_action = FALSE]

consume_movement(a) == [a EXCEPT !.has_movement = FALSE]

consume_action(a) == [a EXCEPT !.has_action = FALSE]

----------------------------------------------------------------------------
(* Deferred commands *)

NoPos == Position(-1, -1)

\* A queued command, with the system that issued it.
Cmd(t, a, p, n) == [type |-> t, ant |-> a, pos |-> p, n |-> n, by |-> Running]

World(g, as, ch) == [grid |-> g, ants |-> as, changed |-> ch]

\* A faulty dig that hands the element to the ant and leaves it in the cell.
DigLeavesElement(w, c) ==
    IF w.grid[c.pos] \in {"Air", Despawned} \/ w.ants[c.ant].inventory # None
    THEN w
    ELSE [w EXCEPT !.ants[c.ant] = consume_action([@ EXCEPT !.inventory = w.grid[c.pos]]),
                   !.changed[c.ant].remove_inv = TRUE]

\* commands.dig: detach the element of the target cell into the ant's
\* inventory, leave Air behind and consume the action; a no-op on Air, on a
\* missing element and for an ant that already carries something.
DigElementCommand(w, c) ==
    IF w.grid[c.pos] \in {"Air", Despawned} \/ w.ants[c.ant].inventory # None
    THEN w
    ELSE [w EXCEPT !.grid[c.pos] = "Air",
                   !.ants[c.ant] = consume_action([@ EXCEPT !.inventory = w.grid[c.pos]]),
                   !.changed[c.ant].remove_inv = TRUE]

\* commands.drop: place the carried element into the target cell, which must
\* hold Air, and consume the action; otherwise the item is retained.
DropElementCommand(w, c) ==
    IF w.grid[c.pos] # "Air" \/ w.ants[c.ant].inventory = None
    THEN w
    ELSE [w EXCEPT !.grid[c.pos] = w.ants[c.ant].inventory,
                   !.ants[c.ant] = consume_action([@ EXCEPT !.inventory = None]),
                   !.changed[c.ant].remove_inv = TRUE]

\* commands.entity(element_entity).remove_parent().despawn(): the entity the
\* cell's cache entry names is gone and nothing replaces it.
DespawnElementCommand(w, c) == [w EXCEPT !.grid[c.pos] = Despawned]

\* commands.entity(ant).insert(Chambering(n)): set, overwriting a present tag.
InsertChamberingCommand(w, c) ==
    [w EXCEPT !.ants[c.ant].chambering = TRUE, !.ants[c.ant].countdown = c.n]

\* commands.entity(ant).remove::<Chambering>()
RemoveChamberingCommand(w, c) ==
    [w EXCEPT !.ants[c.ant].chambering = FALSE, !.ants[c.ant].countdown = 0]

\* commands.entity(ant).insert(Dead)
InsertDeadCommand(w, c) ==
    IF w.ants[c.ant].dead THEN w
    ELSE [w EXCEPT !.ants[c.ant].dead = TRUE, !.changed[c.ant].added_dead = TRUE]

ApplyCommand(w, c) ==
    CASE c.type = "dig"               -> DigElementCommand(w, c)
      [] c.type = "drop"              -> DropElementCommand(w, c)
      [] c.type = "despawn"           -> DespawnElementCommand(w, c)
      [] c.type = "insert_chambering" -> InsertChamberingCommand(w, c)
      [] c.type = "remove_chambering" -> RemoveChamberingCommand(w, c)
      [] c.type = "insert_dead"       -> InsertDeadCommand(w, c)

\* The queue is drained in the order the commands were issued.
RECURSIVE ApplyAll(_, _)
ApplyAll(w, q) == IF q = <<>> THEN w ELSE ApplyAll(ApplyCommand(w, Head(q)), Tail(q))

----------------------------------------------------------------------------
(* Initial worlds *)

NewAnt(p, o, i) ==
    [position |-> p, orientation |-> o, inventory |-> i,
     has_action |-> TRUE, has_movement |-> TRUE,
     dead |-> FALSE, birthing |-> FALSE,
     role |-> "Worker", nesting |-> NoPos,
     chambering |-> FALSE, countdown |-> 0]

\* A flat surface: sky down to the surface row, dirt below it, one Food lying
\* on the surface and one grain of Sand in mid-fall in the first column.
SurfaceGrid ==
    [c \in Cells |->
        IF c = Position(1, SurfaceLevel) THEN "Food"
        ELSE IF c = Position(0, SurfaceLevel - 1) THEN "Sand"
        ELSE IF c.y <= SurfaceLevel THEN "Air" ELSE "Dirt"]

SurfacePheromone ==
    [c \in Cells |-> IF c = Position(2, SurfaceLevel) THEN "Chamber" ELSE None]

\* Ants stand on the surface row on both sides of the Food, facing it.
SurfaceAnt(i, inv) ==
    IF i = 1 THEN NewAnt(Position(0, SurfaceLevel), Orientation("Right", 0), inv)
    ELSE NewAnt(Position(IF i < W THEN i ELSE W - 1, SurfaceLevel),
                Orientation(IF i = 2 THEN "Left" ELSE "Right", 0), inv)

\* A ledge one row under the surface that ends in a drop to the bottom of the
\* grid: dirt in the first three columns from two rows under the surface down,
\* a single block of dirt on the ledge, open air everywhere else.
CliffGrid ==
    [c \in Cells |->
        IF c = Position(0, SurfaceLevel + 1) THEN "Dirt"
        ELSE IF c.x < 3 /\ c.y >= SurfaceLevel + 2 THEN "Dirt"
        ELSE "Air"]

CliffPheromone ==
    [c \in Cells |-> IF c = Position(1, SurfaceLevel + 1) THEN "Chamber" ELSE None]

CliffAnt == NewAnt(Position(1, SurfaceLevel + 1), Orientation("Right", 0), None)

\* An open trench two rows under the surface: a floor of dirt, one block of
\* dirt on it between two ants that face it, a grain of Sand in mid-fall over
\* the second ant, and Chamber pheromone along the trench.
TrenchLevel == SurfaceLevel + 2

TrenchGrid ==
    [c \in Cells |->
        IF c = Position(1, TrenchLevel) THEN "Dirt"
        ELSE IF c = Position(2, SurfaceLevel - 1) THEN "Sand"
        ELSE IF c.y > TrenchLevel THEN "Dirt"
        ELSE "Air"]

TrenchPheromone ==
    [c \in Cells |-> IF c.x < 3 /\ c.y = TrenchLevel THEN "Chamber" ELSE None]

TrenchAnt(i) ==
    IF i = 1 THEN NewAnt(Position(0, TrenchLevel), Orientation("Right", 0), None)
    ELSE NewAnt(Position(2, TrenchLevel), Orientation("Left", 0), None)

\* Every component counts as changed for a system that has not run yet.
InitChanged == [fade |-> TRUE, add |-> TRUE, remove |-> TRUE,
                remove_inv |-> TRUE, added_dead |-> FALSE]

\* The former orientation of an ant that ants_walk has not turned, and of an
\* ant whose turns are not recorded.
NoOrientation == [facing |-> "None", angle |-> 0]

Untracked == [facing |-> "Untracked", angle |-> 0]

\* moves, falls, acts: what the ant did in the current tick; was: its
\* orientation before ants_walk turned it, recorded only where the history
\* starts with NoOrientation; steps: position
\* changes since its Chambering tag was applied; seen: steps at the last run of
\* ants_fade_chamber_pheromone; matched: the last ants_remove_chamber_pheromone
\* had the ant in its query.
InitGhost ==
    [moves |-> 0, falls |-> 0, acts |-> 0, was |-> Untracked,
     steps |-> 0, seen |-> 0, matched |-> FALSE]

\* Time is counted in fast-forward periods of 0.001/60 s: a default period of
\* 10/60 s is 10000 of them and a second is 60000.
FAST_FORWARD_TICK_RATE == 1
DEFAULT_TICK_RATE == 10000 * FAST_FORWARD_TICK_RATE
SECONDS_PER_DAY == 86400
UnitsPerSecond == 60000 * FAST_FORWARD_TICK_RATE

\* isize::MAX of the wasm32 build.
ISIZE_MAX == 2147483647

\* A Duration: whole seconds in a u64 and the fraction of a second. The
\* seconds are written wraps * 2^64 + secs, with wraps = 1 and secs < 0 for a
\* negative i64 that was cast to u64.
Duration(w, s, f) == [wraps |-> w, secs |-> s, frac |-> f]

from_secs_f32(rate) == Duration(0, rate \div UnitsPerSecond, rate % UnitsPerSecond)

\* Duration::from_secs(n as u64) for an i64 n.
from_secs(n) == Duration(IF n < 0 THEN 1 ELSE 0, n, 0)

\* The whole seconds of a Duration that has not wrapped.
as_secs(d) == d.secs

DurationGE(a, b) ==
    \/ a.wraps > b.wraps
    \/ /\ a.wraps = b.wraps
       /\ \/ a.secs > b.secs
          \/ a.secs = b.secs /\ a.frac >= b.frac

DurationAdd(a, b) ==
    LET f == a.frac + b.frac IN
        Duration(a.wraps + b.wraps, a.secs + b.secs + f \div UnitsPerSecond, f % UnitsPerSecond)

DurationSub(a, b) ==
    LET borrow == IF a.frac < b.frac THEN 1 ELSE 0 IN
        Duration(a.wraps - b.wraps, a.secs - b.secs - borrow,
                 a.frac - b.frac + borrow * UnitsPerSecond)

Min(a, b) == IF a < b THEN a ELSE b

\* FixedTime::expend: one period is taken from the accumulated time if there
\* is that much.
can_expend(ft) == DurationGE(ft.accumulated, ft.period)
expend(ft) ==
    IF can_expend(ft) THEN [ft EXCEPT !.accumulated = DurationSub(@, ft.period)] ELSE ft

\* The tick driver of normal play with nothing accumulated.
NormalTime == [period |-> from_secs_f32(DEFAULT_TICK_RATE), accumulated |-> from_secs(0)]

NormalPlay ==
    /\ fixed_time = NormalTime
    /\ is_fast_forwarding = FALSE
    /\ pending_ticks = 0
    /\ story_playback_state = "Playing"

\* On start the seconds since the last save, capped at a day, are cast to u64
\* and added to the accumulated time; nothing is added where there is no
\* save, and a timestamp chrono cannot represent is a panic.
setup_fast_forward_time(ft, last_save_time, in_range, delta_seconds) ==
    IF last_save_time = 0
    THEN [fixed_time |-> ft, panicked |-> FALSE]
    ELSE IF ~in_range
    THEN [fixed_time |-> ft, panicked |-> TRUE]
    ELSE LET elapsed_seconds == Min(delta_seconds, SECONDS_PER_DAY) IN
            [fixed_time |-> [ft EXCEPT !.accumulated = DurationAdd(@, from_secs(elapsed_seconds))],
             panicked |-> FALSE]

\* ((60.0 * DEFAULT_TICK_RATE) * secs as f32) as isize: the cast saturates.
PendingFor(d) ==
    LET per_second == (60 * DEFAULT_TICK_RATE) \div UnitsPerSecond IN
        IF d.wraps > 0 \/ as_secs(d) > ISIZE_MAX \div per_second
        THEN ISIZE_MAX
        ELSE per_second * as_secs(d)

\* A faulty variant of play_time that ends the fast-forward with the last
\* pending tick.
PlayTimeEndsEarly(ft, ff, pt) ==
    IF pt > 1
    THEN [fixed_time |-> ft, is_fast_forwarding |-> ff, pending_ticks |-> pt - 1]
    ELSE IF ff
    THEN [fixed_time |-> [ft EXCEPT !.period = from_secs_f32(DEFAULT_TICK_RATE)],
          is_fast_forwarding |-> FALSE, pending_ticks |-> 0]
    ELSE IF DurationGE(ft.accumulated, from_secs(2))
    THEN [fixed_time |-> [expend([ft EXCEPT !.period = ft.accumulated])
                            EXCEPT !.period = from_secs_f32(FAST_FORWARD_TICK_RATE)],
          is_fast_forwarding |-> TRUE,
          pending_ticks |-> PendingFor(ft.accumulated)]
    ELSE [fixed_time |-> ft, is_fast_forwarding |-> ff, pending_ticks |-> pt]

\* A faulty variant of play_time that leaves the fast-forward period in place.
PlayTimeKeepsPeriod(ft, ff, pt) ==
    IF pt > 0
    THEN [fixed_time |-> ft, is_fast_forwarding |-> ff, pending_ticks |-> pt - 1]
    ELSE IF ff
    THEN [fixed_time |-> ft, is_fast_forwarding |-> FALSE, pending_ticks |-> pt]
    ELSE IF DurationGE(ft.accumulated, from_secs(2))
    THEN [fixed_time |-> [expend([ft EXCEPT !.period = ft.accumulated])
                            EXCEPT !.period = from_secs_f32(FAST_FORWARD_TICK_RATE)],
          is_fast_forwarding |-> TRUE,
          pending_ticks |-> PendingFor(ft.accumulated)]
    ELSE [fixed_time |-> ft, is_fast_forwarding |-> ff, pending_ticks |-> pt]

\* play_time on the resources ft, ff and pt, run after FixedUpdate's expend.
play_time(ft, ff, pt) ==
    IF pt > 0
    THEN [fixed_time |-> ft, is_fast_forwarding |-> ff, pending_ticks |-> pt - 1]
    ELSE IF ff
    THEN [fixed_time |-> [ft EXCEPT !.period = from_secs_f32(DEFAULT_TICK_RATE)],
          is_fast_forwarding |-> FALSE, pending_ticks |-> pt]
    ELSE IF DurationGE(ft.accumulated, from_secs(2))
    THEN [fixed_time |-> [expend([ft EXCEPT !.period = ft.accumulated])
                            EXCEPT !.period = from_secs_f32(FAST_FORWARD_TICK_RATE)],
          is_fast_forwarding |-> TRUE,
          pending_ticks |-> PendingFor(ft.accumulated)]
    ELSE [fixed_time |-> ft, is_fast_forwarding |-> ff, pending_ticks |-> pt]

Init ==
    /\ tick = 0
    /\ pc = FirstStep
    /\ cmds = <<>>
    /\ panicked = FALSE
    /\ \/ /\ grid = SurfaceGrid
          /\ pheromone = SurfacePheromone
          /\ \E inv \in {None, "Sand"} :
                ants = [i \in SurfaceAnts |-> SurfaceAnt(i, IF i = 1 THEN inv ELSE None)]
       \/ /\ grid = CliffGrid
          /\ pheromone = CliffPheromone
          /\ ants = [i \in CliffAnts |-> CliffAnt]
    /\ todo = DOMAIN ants
    /\ changed = [i \in DOMAIN ants |-> InitChanged]
    /\ ghost = [i \in DOMAIN ants |-> InitGhost]
    /\ NormalPlay

----------------------------------------------------------------------------
(* Running the schedule *)

\* A faulty run condition that is attached to the ant systems only.
UnderRunIfAntsOnly(i) ==
    /\ i > Len(ExternalChain) + Len(GravityChain)
    /\ i <= Len(NestSchedule) - Len(TailChain)

\* The system at index i of the chain belongs to the tuple with
\* run_if(not(in_state(StoryPlaybackState::Paused))).
UnderRunIf(i) ==
    /\ i > Len(ExternalChain)
    /\ i <= Len(NestSchedule) - Len(TailChain)

\* The system at index i runs in the playback state at hand.
Runs(i) == story_playback_state # "Paused" \/ ~UnderRunIf(i)

\* The system at hand takes no step: the program has aborted, the bounded
\* run is over, or the pause has switched the system off.
Stopped == panicked \/ tick >= MaxTicks \/ ~Runs(pc)

\* The per-tick history counters start again with every tick.
NewTick(gh) == [a \in DOMAIN gh |-> [gh[a] EXCEPT !.moves = 0, !.falls = 0, !.acts = 0]]

\* The running system is done, leaving queue q and history gh: the next
\* system of the chain takes its turn.
Done(q, gh) ==
    /\ pc' = StepAfter(pc, q)
    /\ tick' = IF EndsTick(pc, q) THEN tick + 1 ELSE tick
    /\ todo' = AntSet
    /\ ghost' = IF EndsTick(pc, q) THEN NewTick(gh) ELSE gh

\* The running system is done with ant a.
Visit(a, q, gh) ==
    IF todo = {a}
    THEN Done(q, gh)
    ELSE pc' = pc /\ tick' = tick /\ todo' = todo \ {a} /\ ghost' = gh

FirstOf(S) == Least(S)

\* An unwrap or an explicit panic!: the program aborts where it stands.
Panic == panicked' = TRUE /\ UNCHANGED <<tick, pc, todo, grid, pheromone, ants, changed, cmds, ghost, clock>>

\* Every system that writes a Position marks it changed for every filter.
MarkPosition(ch) == [ch EXCEPT !.fade = TRUE, !.add = TRUE, !.remove = TRUE]

\* History: a position change of a tagged ant is one more step since its tag.
CountStep(a, gh) == IF ants[a].chambering THEN [gh EXCEPT !.steps = @ + 1] ELSE gh

apply_deferred ==
    /\ ~Stopped
    /\ Running = "apply_deferred"
    /\ LET w == ApplyAll(World(grid, ants, changed), cmds) IN
        /\ grid' = w.grid
        /\ ants' = w.ants
        /\ changed' = w.changed
    /\ cmds' = <<>>
    /\ Done(<<>>, [a \in AntSet |->
                    IF \E i \in DOMAIN cmds :
                          cmds[i].type = "insert_chambering" /\ cmds[i].ant = a
                    THEN [ghost[a] EXCEPT !.steps = 0, !.seen = 0]
                    ELSE ghost[a]])
    /\ UNCHANGED <<pheromone, panicked, clock>>

----------------------------------------------------------------------------
(* Gravity *)

StraightBelow(p) == Position(p.x, p.y + 1)

StraightAbove(p) == Position(p.x, p.y - 1)

\* A non-Air element whose supporting cell holds Air is unsupported.
IsUnsupported(g, p) ==
    /\ g[p] \in Elements \ {"Air"}
    /\ is_element(g, StraightBelow(p), "Air")

\* Unsupported elements fall one cell per tick into the Air beneath them.
FallenGrid(g) ==
    [c \in Cells |->
        IF IsUnsupported(g, c) THEN "Air"
        ELSE IF g[c] = "Air" /\ is_within_bounds(StraightAbove(c))
                /\ IsUnsupported(g, StraightAbove(c))
             THEN g[StraightAbove(c)]
             ELSE g[c]]

gravity_elements ==
    /\ ~Stopped
    /\ Running = "gravity_elements"
    /\ grid' = FallenGrid(grid)
    /\ Done(cmds, ghost)
    /\ UNCHANGED <<pheromone, ants, changed, cmds, panicked, clock>>

\* An ant with Air under its feet falls one cell when the cell straight below
\* it holds Air; an ant that clings sideways or upside down may lose its grip
\* by chance.  A fall writes the Position and uses up the movement.
gravity_ants ==
    /\ ~Stopped
    /\ Running = "gravity_ants"
    /\ LET a == FirstOf(todo)
           r == ants[a]
           feet == get_below_position(r.orientation, r.position)
           below == StraightBelow(r.position)
       IN \E chance \in BOOLEAN :
            LET loses_grip == chance /\ ~is_rightside_up(r.orientation)
                falls == /\ (is_element(grid, feet, "Air") \/ loses_grip)
                         /\ is_element(grid, below, "Air")
            IN /\ ants' = IF falls
                          THEN [ants EXCEPT ![a] = consume_movement([@ EXCEPT !.position = below])]
                          ELSE ants
               /\ changed' = IF falls THEN [changed EXCEPT ![a] = MarkPosition(@)] ELSE changed
               /\ Visit(a, cmds, IF falls
                                  THEN [ghost EXCEPT ![a] = CountStep(a, [@ EXCEPT !.falls = @ + 1])]
                                  ELSE ghost)
    /\ UNCHANGED <<grid, pheromone, cmds, panicked, clock>>

----------------------------------------------------------------------------
(* Hunger and initiative *)

\* An ant that starves is tagged Dead; at most one ant starves per tick here.
ants_hunger_tick ==
    /\ ~Stopped
    /\ Running = "ants_hunger_tick"
    /\ \E starved \in {{}} \cup {{a} : a \in {b \in AntSet : ~ants[b].dead}} :
          cmds' = cmds \o SelectSeq([i \in AntIds |-> Cmd("insert_dead", i, NoPos, 0)],
                                    LAMBDA c : c.ant \in starved)
    /\ Done(cmds', ghost)
    /\ UNCHANGED <<grid, pheromone, ants, changed, panicked, clock>>

\* The budget of every ant is reset to one move and one action.
ants_initiative ==
    /\ ~Stopped
    /\ Running = "ants_initiative"
    /\ ants' = [a \in AntSet |-> [ants[a] EXCEPT !.has_action = TRUE, !.has_movement = TRUE]]
    /\ Done(cmds, ghost)
    /\ UNCHANGED <<grid, pheromone, changed, cmds, panicked, clock>>

----------------------------------------------------------------------------
(* Chambering pheromone *)

\* Whenever an ant's Position changed since the last run, it loses 1 Chambering.
ants_fade_chamber_pheromone ==
    /\ ~Stopped
    /\ Running = "ants_fade_chamber_pheromone"
    /\ ants' = [a \in AntSet |->
                   IF ants[a].chambering /\ changed[a].fade
                   THEN [ants[a] EXCEPT !.countdown = @ - 1]
                   ELSE ants[a]]
    /\ changed' = [a \in AntSet |-> [changed[a] EXCEPT !.fade = FALSE]]
    /\ Done(cmds, [a \in AntSet |-> [ghost[a] EXCEPT !.seen = ghost[a].steps]])
    /\ UNCHANGED <<grid, pheromone, cmds, panicked, clock>>

\* A faulty variant of AddsChambering that tags carrying ants too.
AddsChamberingCarrying(a) ==
    /\ changed[a].add
    /\ pheromone[ants[a].position] = "Chamber"

AddsChambering(a) ==
    /\ changed[a].add
    /\ ants[a].inventory = None
    /\ pheromone[ants[a].position] = "Chamber"

ants_add_chamber_pheromone ==
    /\ ~Stopped
    /\ Running = "ants_add_chamber_pheromone"
    /\ cmds' = cmds \o SelectSeq([i \in AntIds |-> Cmd("insert_chambering", i, NoPos, ChamberSize)],
                                 LAMBDA c : c.ant \in AntSet /\ AddsChambering(c.ant))
    /\ changed' = [a \in AntSet |-> [changed[a] EXCEPT !.add = FALSE]]
    /\ Done(cmds', ghost)
    /\ UNCHANGED <<grid, pheromone, ants, panicked, clock>>

\* A faulty query that forgets Changed<AntInventory>.
RemoveQueryPositionOnly(a) == ants[a].chambering /\ changed[a].remove

\* The ants the query of ants_remove_chamber_pheromone yields.
RemoveQuery(a) == ants[a].chambering /\ (changed[a].remove \/ changed[a].remove_inv)

\* A faulty variant of RemovesChambering that forgets the aboveground trigger.
RemovesChamberingUnderground(a) ==
    /\ RemoveQuery(a)
    /\ IF ants[a].inventory # None THEN TRUE
       ELSE ants[a].countdown <= 0

RemovesChambering(a) ==
    /\ RemoveQuery(a)
    /\ IF ants[a].inventory # None THEN TRUE
       ELSE IF is_aboveground(ants[a].position) THEN TRUE
       ELSE ants[a].countdown <= 0

ants_remove_chamber_pheromone ==
    /\ ~Stopped
    /\ Running = "ants_remove_chamber_pheromone"
    /\ cmds' = cmds \o SelectSeq([i \in AntIds |-> Cmd("remove_chambering", i, NoPos, 0)],
                                 LAMBDA c : c.ant \in AntSet /\ RemovesChambering(c.ant))
    /\ changed' = [a \in AntSet |-> [changed[a] EXCEPT !.remove = FALSE, !.remove_inv = FALSE]]
    /\ Done(cmds', [a \in AntSet |-> [ghost[a] EXCEPT !.matched = RemoveQuery(a)]])
    /\ UNCHANGED <<grid, pheromone, ants, panicked, clock>>

\* try_dig: "dig" when a dig command is issued for the cell, "no" when the cell
\* is out of bounds or holds Air, "panic" when its entity has no Element.
try_dig(g, dig_position) ==
    IF ~is_within_bounds(dig_position) THEN "no"
    ELSE IF g[dig_position] = Despawned THEN "panic"
    ELSE IF g[dig_position] = "Air" THEN "no"
    ELSE "dig"

\* A faulty variant of ChamberAct that digs above whatever the orientation.
ChamberActAnyAbove(g, r) ==
    LET ahead == get_ahead_position(r.orientation, r.position)
        above == get_above_position(r.orientation, r.position)
        first == IF is_facing_north(r.orientation) THEN "no" ELSE try_dig(g, ahead)
        second == try_dig(g, above)
    IN IF ~can_act(r) THEN [do |-> "skip", pos |-> NoPos]
       ELSE IF r.inventory # None THEN [do |-> "skip", pos |-> NoPos]
       ELSE IF first = "panic" THEN [do |-> "panic", pos |-> NoPos]
       ELSE IF first = "dig" THEN [do |-> "dig", pos |-> ahead]
       ELSE IF second = "panic" THEN [do |-> "panic", pos |-> NoPos]
       ELSE IF second = "dig" THEN [do |-> "dig", pos |-> above]
       ELSE [do |-> "skip", pos |-> NoPos]

\* A faulty variant of ChamberAct that tries the above cell first.
ChamberActAboveFirst(g, r) ==
    LET ahead == get_ahead_position(r.orientation, r.position)
        above == get_above_position(r.orientation, r.position)
        first == IF is_rightside_up(r.orientation) THEN "no" ELSE try_dig(g, above)
        second == IF is_facing_north(r.orientation) THEN "no" ELSE try_dig(g, ahead)
    IN IF ~can_act(r) THEN [do |-> "skip", pos |-> NoPos]
       ELSE IF r.inventory # None THEN [do |-> "skip", pos |-> NoPos]
       ELSE IF first = "panic" THEN [do |-> "panic", pos |-> NoPos]
       ELSE IF first = "dig" THEN [do |-> "dig", pos |-> above]
       ELSE IF second = "panic" THEN [do |-> "panic", pos |-> NoPos]
       ELSE IF second = "dig" THEN [do |-> "dig", pos |-> ahead]
       ELSE [do |-> "skip", pos |-> NoPos]

\* What ants_chamber_pheromone_act does for one ant of its query:
\* [do |-> "skip" | "dig" | "panic", pos |-> the cell to dig].
ChamberAct(g, r) ==
    LET ahead == get_ahead_position(r.orientation, r.position)
        above == get_above_position(r.orientation, r.position)
        first == IF is_facing_north(r.orientation) THEN "no" ELSE try_dig(g, ahead)
        second == IF is_rightside_up(r.orientation) THEN "no" ELSE try_dig(g, above)
    IN IF ~can_act(r) THEN [do |-> "skip", pos |-> NoPos]
       ELSE IF r.inventory # None THEN [do |-> "skip", pos |-> NoPos]
       ELSE IF first = "panic" THEN [do |-> "panic", pos |-> NoPos]
       ELSE IF first = "dig" THEN [do |-> "dig", pos |-> ahead]
       ELSE IF second = "panic" THEN [do |-> "panic", pos |-> NoPos]
       ELSE IF second = "dig" THEN [do |-> "dig", pos |-> above]
       ELSE [do |-> "skip", pos |-> NoPos]

ants_chamber_pheromone_act ==
    /\ ~Stopped
    /\ Running = "ants_chamber_pheromone_act"
    /\ \E a \in todo :
        LET act == IF ants[a].chambering THEN ChamberAct(grid, ants[a])
                   ELSE [do |-> "skip", pos |-> NoPos]
        IN IF act.do = "panic" THEN Panic
           ELSE /\ cmds' = IF act.do = "dig"
                           THEN Append(cmds, Cmd("dig", a, act.pos, 0)) ELSE cmds
                /\ ants' = IF act.do = "dig"
                           THEN [ants EXCEPT ![a] = consume_action(@)] ELSE ants
                /\ Visit(a, cmds', IF act.do = "dig"
                                    THEN [ghost EXCEPT ![a].acts = @ + 1] ELSE ghost)
                /\ UNCHANGED <<grid, pheromone, changed, panicked, clock>>

----------------------------------------------------------------------------
(* Walking *)

FootPosition(o, p) == PosAdd(p, get_forward_delta(rotate_forward(o)))

\* A legal ant location: Air at the ant's body and an in-bounds, non-Air cell
\* under its feet.
is_valid_location(g, o, p) ==
    /\ is_element(g, p, "Air")
    /\ is_within_bounds(FootPosition(o, p))
    /\ g[FootPosition(o, p)] \notin {"Air", Despawned}

\* is_valid_location panics when an entity it looks up has no Element.
ValidLocationPanics(g, o, p) ==
    \/ is_dangling(g, p)
    \/ is_element(g, p, "Air") /\ is_dangling(g, FootPosition(o, p))

\* A faulty variant of get_turned_orientation that tries turning around first.
TurnAroundFirst(g, o, p) ==
    LET back_orientation == rotate_backward(o)
        opposite_orientation == turn_around(o)
        valid_orientations == {i \in AllOrientations \ {o} : is_valid_location(g, i, p)}
    IN IF is_valid_location(g, opposite_orientation, p) THEN {opposite_orientation}
       ELSE IF is_valid_location(g, back_orientation, p) THEN {back_orientation}
       ELSE IF valid_orientations # {} THEN valid_orientations
       ELSE AllOrientations

\* The orientations get_turned_orientation may return.
get_turned_orientation(g, o, p) ==
    LET back_orientation == rotate_backward(o)
        opposite_orientation == turn_around(o)
        valid_orientations == {i \in AllOrientations \ {o} : is_valid_location(g, i, p)}
    IN IF is_valid_location(g, back_orientation, p) THEN {back_orientation}
       ELSE IF is_valid_location(g, opposite_orientation, p) THEN {opposite_orientation}
       ELSE IF valid_orientations # {} THEN valid_orientations
       ELSE AllOrientations

TurnPanics(g, o, p) ==
    \/ ValidLocationPanics(g, rotate_backward(o), p)
    \/ /\ ~is_valid_location(g, rotate_backward(o), p)
       /\ \/ ValidLocationPanics(g, turn_around(o), p)
          \/ /\ ~is_valid_location(g, turn_around(o), p)
             /\ \E i \in AllOrientations \ {o} : ValidLocationPanics(g, i, p)

Distance(p, q) ==
    (IF p.x >= q.x THEN p.x - q.x ELSE q.x - p.x) + (IF p.y >= q.y THEN p.y - q.y ELSE q.y - p.y)

\* A faulty variant of is_queen_turning_towards_nest that turns the queen
\* when its next step leads towards the nest.
QueenTurnsWhenCloser(r) ==
    /\ r.role = "Queen"
    /\ is_aboveground(r.position)
    /\ r.inventory = None
    /\ is_horizontal(r.orientation)
    /\ r.nesting # NoPos
    /\ Distance(get_ahead_position(r.orientation, r.position), r.nesting)
          < Distance(r.position, r.nesting)

\* The queen heads back to the nest when its next step leads away from it.
is_queen_turning_towards_nest(r) ==
    /\ r.role = "Queen"
    /\ is_aboveground(r.position)
    /\ r.inventory = None
    /\ is_horizontal(r.orientation)
    /\ r.nesting # NoPos
    /\ Distance(get_ahead_position(r.orientation, r.position), r.nesting)
          > Distance(r.position, r.nesting)

\* A faulty variant of WalkKind that goes round the edge whatever the footing
\* at the cell ahead.
WalkKindAlwaysCorner(g, r, is_turning_randomly) ==
    LET under_feet_position == FootPosition(r.orientation, r.position)
        has_air_under_feet == is_element(g, under_feet_position, "Air")
        forward_position == get_ahead_position(r.orientation, r.position)
        has_air_ahead == is_element(g, forward_position, "Air")
        foot_position == FootPosition(r.orientation, forward_position)
    IN IF \/ has_air_under_feet
          \/ ~has_air_ahead
          \/ is_turning_randomly
          \/ is_queen_turning_towards_nest(r)
       THEN IF TurnPanics(g, r.orientation, r.position) THEN "panic" ELSE "turn"
       ELSE IF ~is_within_bounds(foot_position) THEN "stay"
       ELSE IF g[foot_position] = Despawned THEN "panic"
       ELSE "corner"

\* A faulty variant of WalkKind that steps straight ahead whatever the
\* footing at the cell ahead.
WalkKindNeverCorner(g, r, is_turning_randomly) ==
    LET under_feet_position == FootPosition(r.orientation, r.position)
        has_air_under_feet == is_element(g, under_feet_position, "Air")
        forward_position == get_ahead_position(r.orientation, r.position)
        has_air_ahead == is_element(g, forward_position, "Air")
        foot_position == FootPosition(r.orientation, forward_position)
    IN IF \/ has_air_under_feet
          \/ ~has_air_ahead
          \/ is_turning_randomly
          \/ is_queen_turning_towards_nest(r)
       THEN IF TurnPanics(g, r.orientation, r.position) THEN "panic" ELSE "turn"
       ELSE IF ~is_within_bounds(foot_position) THEN "stay"
       ELSE IF g[foot_position] = Despawned THEN "panic"
       ELSE "step"

\* A faulty variant of WalkKind that walks on when the cell ahead is not Air.
WalkKindIgnoringBlocked(g, r, is_turning_randomly) ==
    LET under_feet_position == FootPosition(r.orientation, r.position)
        has_air_under_feet == is_element(g, under_feet_position, "Air")
        forward_position == get_ahead_position(r.orientation, r.position)
        foot_position == FootPosition(r.orientation, forward_position)
    IN IF \/ has_air_under_feet
          \/ is_turning_randomly
          \/ is_queen_turning_towards_nest(r)
       THEN IF TurnPanics(g, r.orientation, r.position) THEN "panic" ELSE "turn"
       ELSE IF ~is_within_bounds(foot_position) THEN "stay"
       ELSE IF g[foot_position] = Despawned THEN "panic"
       ELSE IF g[foot_position] = "Air" THEN "corner"
       ELSE "step"

\* What ants_walk does for one ant that can move, given the random draw:
\* "turn", "step" (straight ahead), "corner" (around the edge of its block),
\* "stay" (nothing, the foot cell is out of bounds) or "panic".
WalkKind(g, r, is_turning_randomly) ==
    LET under_feet_position == FootPosition(r.orientation, r.position)
        has_air_under_feet == is_element(g, under_feet_position, "Air")
        forward_position == get_ahead_position(r.orientation, r.position)
        has_air_ahead == is_element(g, forward_position, "Air")
        foot_position == FootPosition(r.orientation, forward_position)
    IN IF \/ has_air_under_feet
          \/ ~has_air_ahead
          \/ is_turning_randomly
          \/ is_queen_turning_towards_nest(r)
       THEN IF TurnPanics(g, r.orientation, r.position) THEN "panic" ELSE "turn"
       ELSE IF ~is_within_bounds(foot_position) THEN "stay"
       ELSE IF g[foot_position] = Despawned THEN "panic"
       ELSE IF g[foot_position] = "Air" THEN "corner"
       ELSE "step"

\* The ants the query of ants_walk yields.
WalkQuery(r) == ~r.dead /\ ~r.birthing

ants_walk ==
    /\ ~Stopped
    /\ Running = "ants_walk"
    /\ LET a == FirstOf(todo)
           r == ants[a]
           forward_position == get_ahead_position(r.orientation, r.position)
           foot_orientation == rotate_forward(r.orientation)
           foot_position == PosAdd(forward_position, get_forward_delta(foot_orientation))
       IN IF ~WalkQuery(r) \/ ~can_move(r)
          THEN Visit(a, cmds, ghost) /\ UNCHANGED <<grid, pheromone, ants, changed, cmds, panicked, clock>>
          ELSE \E is_turning_randomly \in BOOLEAN :
            LET kind == WalkKind(grid, r, is_turning_randomly) IN
            CASE kind = "panic" -> Panic
              [] kind = "stay" ->
                    Visit(a, cmds, ghost) /\ UNCHANGED <<grid, pheromone, ants, changed, cmds, panicked, clock>>
              [] kind = "turn" ->
                    \E o \in get_turned_orientation(grid, r.orientation, r.position) :
                        /\ ants' = [ants EXCEPT ![a] = consume_movement([@ EXCEPT !.orientation = o])]
                        /\ Visit(a, cmds, [ghost EXCEPT ![a].moves = @ + 1,
                                                          ![a].was = IF @ = Untracked THEN @
                                                                     ELSE r.orientation])
                        /\ UNCHANGED <<grid, pheromone, changed, cmds, panicked, clock>>
              [] kind \in {"step", "corner"} ->
                    /\ ants' = [ants EXCEPT ![a] = consume_movement(
                                  IF kind = "corner"
                                  THEN [@ EXCEPT !.position = foot_position,
                                                 !.orientation = foot_orientation]
                                  ELSE [@ EXCEPT !.position = forward_position])]
                    /\ changed' = [changed EXCEPT ![a] = MarkPosition(@)]
                    /\ Visit(a, cmds, [ghost EXCEPT ![a] = CountStep(a, [@ EXCEPT !.moves = @ + 1])])
                    /\ UNCHANGED <<grid, pheromone, cmds, panicked, clock>>

----------------------------------------------------------------------------
(* Digging and dropping *)

\* The in-bounds cells ahead of, below and above the ant.
DigPositions(r) ==
    {p \in {get_ahead_position(r.orientation, r.position),
            get_below_position(r.orientation, r.position),
            get_above_position(r.orientation, r.position)} : is_within_bounds(p)}

food_positions(g, r) == {p \in DigPositions(r) : g[p] = "Food"}

\* A faulty variant of DigKind that forgets the inventory gate.
DigKindAnyInventory(g, r) ==
    IF ~can_act(r) THEN "continue"
    ELSE IF \E p \in DigPositions(r) : g[p] = Despawned THEN "panic"
    ELSE IF food_positions(g, r) = {} THEN "return"
    ELSE "dig"

\* What ants_dig does for one ant: "continue" (the ant is skipped), "return"
\* (the pass ends), "dig" or "panic".
DigKind(g, r) ==
    IF ~can_act(r) THEN "continue"
    ELSE IF r.inventory # None THEN "continue"
    ELSE IF \E p \in DigPositions(r) : g[p] = Despawned THEN "panic"
    ELSE IF food_positions(g, r) = {} THEN "return"
    ELSE "dig"

ants_dig ==
    /\ ~Stopped
    /\ Running = "ants_dig"
    /\ \E a \in todo :
        LET r == ants[a]
            kind == DigKind(grid, r)
        IN CASE kind = "panic" -> Panic
             [] kind = "continue" ->
                    Visit(a, cmds, ghost) /\ UNCHANGED <<grid, pheromone, ants, changed, cmds, panicked, clock>>
             [] kind = "return" ->
                    Done(cmds, ghost) /\ UNCHANGED <<grid, pheromone, ants, changed, cmds, panicked, clock>>
             [] kind = "dig" ->
                    \E dig_position \in food_positions(grid, r) :
                        /\ cmds' = Append(cmds, Cmd("dig", a, dig_position, 0))
                        /\ ants' = [ants EXCEPT ![a].orientation = turn_around(@)]
                        /\ Visit(a, cmds', [ghost EXCEPT ![a].acts = @ + 1])
                        /\ UNCHANGED <<grid, pheromone, changed, panicked, clock>>

\* A faulty variant of CanDrop that forgets the action gate.
CanDropAnyInitiative(g, r) ==
    /\ ~r.dead
    /\ r.inventory # None
    /\ is_element(g, get_ahead_position(r.orientation, r.position), "Air")

\* An ant that lives, can act and carries something may drop it into the
\* cell ahead when that cell holds Air.
CanDrop(g, r) ==
    /\ ~r.dead
    /\ can_act(r)
    /\ r.inventory # None
    /\ is_element(g, get_ahead_position(r.orientation, r.position), "Air")

ants_drop ==
    /\ ~Stopped
    /\ Running = "ants_drop"
    /\ LET a == FirstOf(todo)
           r == ants[a]
       IN \E drops \in BOOLEAN :
            LET issue == drops /\ CanDrop(grid, r) IN
            /\ cmds' = IF issue
                       THEN Append(cmds, Cmd("drop", a, get_ahead_position(r.orientation, r.position), 0))
                       ELSE cmds
            /\ Visit(a, cmds', IF issue THEN [ghost EXCEPT ![a].acts = @ + 1] ELSE ghost)
    /\ UNCHANGED <<grid, pheromone, ants, changed, panicked, clock>>

----------------------------------------------------------------------------
(* Death *)

\* The command on_ants_add_dead queues for one ant of its query (Added<Dead>):
\* the element entity it names is the one cached for the ant's cell.
DeadCommand(g, a, r) ==
    IF r.inventory = None THEN <<>>
    ELSE IF is_element(g, r.position, "Air")
         THEN <<Cmd("drop", a, r.position, 0)>>
         ELSE <<Cmd("despawn", a, r.position, 0)>>

on_ants_add_dead ==
    /\ ~Stopped
    /\ Running = "on_ants_add_dead"
    /\ \E a \in todo :
        /\ cmds' = IF changed[a].added_dead
                   THEN cmds \o DeadCommand(grid, a, ants[a]) ELSE cmds
        /\ changed' = [changed EXCEPT ![a].added_dead = FALSE]
        /\ Visit(a, cmds', ghost)
    /\ UNCHANGED <<grid, pheromone, ants, panicked, clock>>

----------------------------------------------------------------------------
(* One pass of ants_walk over one ant, from any placement *)

\* All Dirt except one column of Air.
ColumnGrid(x) == [c \in Cells |-> IF c.x = x THEN "Air" ELSE "Dirt"]

WalkGrids == {SurfaceGrid, CliffGrid, TrenchGrid} \cup {ColumnGrid(x) : x \in 0 .. W - 1}

NoPheromone == [c \in Cells |-> None]

\* Nesting of the ant: none, or a nest position on the surface row.
NestPositions == {NoPos, Position(0, SurfaceLevel), Position(W - 1, SurfaceLevel)}

\* The place of ants_walk in the chain.
WalkStep == Least({i \in 1 .. Len(NestSchedule) : NestSchedule[i] = "ants_walk"})

\* An ant in any cell of Air, in any orientation, worker or queen, carrying
\* or not, with or without its movement, alive, dead or birthing.
WalkAnts ==
    {[NewAnt(p, o, inv) EXCEPT !.has_movement = mv, !.dead = flags[1], !.birthing = flags[2],
                               !.role = role, !.nesting = nest] :
        p \in Cells, o \in AllOrientations, inv \in {None, "Sand"}, mv \in BOOLEAN,
        flags \in {<<FALSE, FALSE>>, <<TRUE, FALSE>>, <<FALSE, TRUE>>},
        role \in {"Worker", "Queen"}, nest \in NestPositions}

WalkInit ==
    /\ tick = 0
    /\ pc = WalkStep
    /\ cmds = <<>>
    /\ panicked = FALSE
    /\ grid \in WalkGrids
    /\ pheromone = NoPheromone
    /\ \E r \in WalkAnts :
          /\ grid[r.position] = "Air"
          /\ r.role = "Worker" => r.nesting = NoPos
          /\ ants = [i \in {1} |-> r]
    /\ todo = DOMAIN ants
    /\ changed = [i \in DOMAIN ants |-> [InitChanged EXCEPT !.fade = FALSE, !.add = FALSE,
                                                             !.remove = FALSE, !.remove_inv = FALSE]]
    /\ ghost = [i \in DOMAIN ants |-> [InitGhost EXCEPT !.was = NoOrientation]]
    /\ NormalPlay

WalkNext == ants_walk

WalkSpec == WalkInit /\ [][WalkNext]_vars

----------------------------------------------------------------------------
(* The specification *)

Next ==
    \/ apply_deferred
    \/ gravity_elements
    \/ gravity_ants
    \/ ants_hunger_tick
    \/ ants_fade_chamber_pheromone
    \/ ants_add_chamber_pheromone
    \/ ants_remove_chamber_pheromone
    \/ ants_chamber_pheromone_act
    \/ ants_walk
    \/ ants_dig
    \/ ants_drop
    \/ on_ants_add_dead
    \/ ants_initiative

Spec == Init /\ [][Next]_vars

\* The same chain, started in the trench.
TrenchInit ==
    /\ tick = 0
    /\ pc = FirstStep
    /\ cmds = <<>>
    /\ panicked = FALSE
    /\ grid = TrenchGrid
    /\ pheromone = TrenchPheromone
    /\ ants = [i \in TrenchAnts |-> TrenchAnt(i)]
    /\ todo = DOMAIN ants
    /\ changed = [i \in DOMAIN ants |-> InitChanged]
    /\ ghost = [i \in DOMAIN ants |-> InitGhost]
    /\ NormalPlay

TrenchSpec == TrenchInit /\ [][Next]_vars

----------------------------------------------------------------------------
(* Pausing the story *)

PauseInit ==
    /\ tick = 0
    /\ pc = FirstStep
    /\ cmds = <<>>
    /\ panicked = FALSE
    /\ grid = TrenchGrid
    /\ pheromone = TrenchPheromone
    /\ ants = [i \in TrenchAnts |-> TrenchAnt(i)]
    /\ todo = DOMAIN ants
    /\ changed = [i \in DOMAIN ants |-> InitChanged]
    /\ ghost = [i \in DOMAIN ants |-> InitGhost]
    /\ fixed_time = NormalTime
    /\ is_fast_forwarding = FALSE
    /\ pending_ticks = 0
    /\ story_playback_state \in {"Playing", "Paused"}

\* The user pauses or resumes the story. The state changes between two runs
\* of the schedule, never inside one.
set_story_playback_state ==
    /\ ~panicked
    /\ tick < MaxTicks
    /\ pc = FirstStep /\ todo = AntSet /\ cmds = <<>>
    /\ story_playback_state' = IF story_playback_state = "Paused" THEN "Playing" ELSE "Paused"
    /\ UNCHANGED <<tick, pc, todo, grid, pheromone, ants, changed, cmds, panicked, ghost,
                   fixed_time, is_fast_forwarding, pending_ticks>>

PauseNext ==
    \/ set_story_playback_state
    \/ apply_deferred
    \/ gravity_elements
    \/ gravity_ants
    \/ ants_hunger_tick
    \/ ants_fade_chamber_pheromone
    \/ ants_add_chamber_pheromone
    \/ ants_remove_chamber_pheromone
    \/ ants_chamber_pheromone_act
    \/ ants_walk
    \/ ants_dig
    \/ ants_drop
    \/ on_ants_add_dead
    \/ ants_initiative

PauseSpec == PauseInit /\ [][PauseNext]_vars

----------------------------------------------------------------------------
(* The tick driver: frames and runs of FixedUpdate *)

MaxAway == 3
MaxFixedTicks == 40

\* The time a frame adds: a sixtieth of a second, or whole seconds when the
\* tab was hidden.
FrameDeltas ==
    {from_secs_f32(UnitsPerSecond \div 60)} \cup {from_secs(s) : s \in 1 .. MaxAway}

\* The seconds between the last save and now: the clock may have been set
\* back, and the app may have been closed for more than a day.
DeltaSeconds == (-MaxAway .. MaxAway) \cup {SECONDS_PER_DAY + MaxAway}

\* History of the tick driver: the last-save timestamp and what
\* setup_fast_forward_time added for it; the ticks the last fast-forward
\* started with and the calls of play_time since.
TimeGhost(last_save_time, advance) ==
    [last_save_time |-> last_save_time, advance |-> advance, scheduled |-> 0, calls |-> 0]

TimeInit ==
    /\ tick = 0
    /\ pc = FirstStep
    /\ cmds = <<>>
    /\ grid = SurfaceGrid
    /\ pheromone = SurfacePheromone
    /\ ants = [i \in SurfaceAnts |-> SurfaceAnt(i, None)]
    /\ todo = DOMAIN ants
    /\ changed = [i \in DOMAIN ants |-> InitChanged]
    /\ \E last_save_time \in {0, 1}, in_range \in BOOLEAN, delta_seconds \in DeltaSeconds :
          LET r == setup_fast_forward_time(NormalTime, last_save_time, in_range, delta_seconds) IN
              /\ fixed_time = r.fixed_time
              /\ panicked = r.panicked
              /\ ghost = TimeGhost(last_save_time, r.fixed_time.accumulated)
    /\ is_fast_forwarding = FALSE
    /\ pending_ticks = 0
    /\ story_playback_state = "Playing"

\* A frame begins: the frame's time is added to the accumulated time. The
\* runs of FixedUpdate of the frame before have ended.
tick_fixed_time ==
    /\ ~panicked
    /\ tick < MaxFixedTicks
    /\ ~can_expend(fixed_time)
    /\ \E delta \in FrameDeltas :
          fixed_time' = [fixed_time EXCEPT !.accumulated = DurationAdd(@, delta)]
    /\ UNCHANGED <<tick, pc, todo, grid, pheromone, ants, changed, cmds, panicked, ghost,
                   is_fast_forwarding, pending_ticks, story_playback_state>>

\* One run of FixedUpdate: a period is expended and the schedule runs, with
\* play_time in it. The simulation systems of the schedule are left out here.
run_fixed_update_schedule ==
    /\ ~panicked
    /\ tick < MaxFixedTicks
    /\ can_expend(fixed_time)
    /\ LET r == play_time(expend(fixed_time), is_fast_forwarding, pending_ticks) IN
          /\ fixed_time' = r.fixed_time
          /\ is_fast_forwarding' = r.is_fast_forwarding
          /\ pending_ticks' = r.pending_ticks
          /\ ghost' = IF ~is_fast_forwarding /\ r.is_fast_forwarding
                      THEN [ghost EXCEPT !.scheduled = r.pending_ticks, !.calls = 0]
                      ELSE IF is_fast_forwarding
                      THEN [ghost EXCEPT !.calls = @ + 1]
                      ELSE ghost
    /\ tick' = tick + 1
    /\ UNCHANGED <<pc, todo, grid, pheromone, ants, changed, cmds, panicked,
                   story_playback_state>>

TimeNext ==
    \/ tick_fixed_time
    \/ run_fixed_update_schedule

TimeSpec == TimeInit /\ [][TimeNext]_vars

----------------------------------------------------------------------------
(* Building the position-to-element cache *)

\* An element entity. Entity::PLACEHOLDER has the index u32::MAX, written
\* NoIndex here: no stored element has it.
NoIndex == 0 - 1
Entity(i) == [index |-> i]
PLACEHOLDER == Entity(NoIndex)

\* The orders in which a saved world may list the cells of its elements.
RowMajor == [k \in 1 .. W * H |-> Position((k - 1) % W, (k - 1) \div W)]
ColumnMajor == [k \in 1 .. W * H |-> Position((k - 1) \div H, (k - 1) % H)]
Reversed(s) == [k \in 1 .. Len(s) |-> s[Len(s) + 1 - k]]
CellOrders == {RowMajor, ColumnMajor, Reversed(RowMajor), Reversed(ColumnMajor)}

\* The element entities of a world, as element_query.iter() yields them: one
\* to a cell in the given order, except for the cells whose element was
\* despawned without a replacement.
ElementQuery(order, despawned) ==
    LET kept == SelectSeq(order, LAMBDA c : c \notin despawned)
    IN [k \in 1 .. Len(kept) |-> [position |-> kept[k], entity |-> Entity(k)]]

\* vec![vec![Entity::PLACEHOLDER; nest_width]; nest_height]: rows by y, then x.
EmptyCache == [y \in 1 .. H |-> [x \in 1 .. W |-> PLACEHOLDER]]

\* The loop over the query: each element is written at [y][x].
RECURSIVE FillCache(_, _, _)
FillCache(elements_cache, elements, i) ==
    IF i > Len(elements) THEN elements_cache
    ELSE FillCache([elements_cache EXCEPT
                       ![elements[i].position.y + 1][elements[i].position.x + 1] =
                           elements[i].entity],
                   elements, i + 1)

\* A faulty variant of setup_nest_grid that leaves out the first element of
\* the query.
SetupNestGridFromSecond(elements) == FillCache(EmptyCache, elements, 2)

setup_nest_grid(elements) == FillCache(EmptyCache, elements, 1)

\* The nest before setup_nest_grid has inserted its Grid.
NoGrid == <<>>

\* The story that is set up: its element entities and the cache made of them.
GridGhost(elements) == [elements |-> elements, elements_cache |-> NoGrid]

\* A story has been created or loaded: every cell holds one element, or all
\* but one do.
GridInit ==
    /\ tick = 0
    /\ pc = FirstStep
    /\ cmds = <<>>
    /\ panicked = FALSE
    /\ grid = SurfaceGrid
    /\ pheromone = SurfacePheromone
    /\ ants = [i \in SurfaceAnts |-> SurfaceAnt(i, None)]
    /\ todo = DOMAIN ants
    /\ changed = [i \in DOMAIN ants |-> InitChanged]
    /\ \E order \in CellOrders, despawned \in {{}} \cup {{c} : c \in Cells} :
          ghost = GridGhost(ElementQuery(order, despawned))
    /\ fixed_time = NormalTime
    /\ is_fast_forwarding = FALSE
    /\ pending_ticks = 0
    /\ story_playback_state = "Playing"

\* setup_nest_grid runs once and inserts the Grid with its cache.
run_setup_nest_grid ==
    /\ ghost.elements_cache = NoGrid
    /\ ghost' = [ghost EXCEPT !.elements_cache = setup_nest_grid(ghost.elements)]
    /\ UNCHANGED <<tick, pc, todo, grid, pheromone, ants, changed, cmds, panicked,
                   fixed_time, is_fast_forwarding, pending_ticks, story_playback_state>>

GridNext == run_setup_nest_grid

GridSpec == GridInit /\ [][GridNext]_vars

----------------------------------------------------------------------------
(* Properties *)

\* The state between two ticks: the first system of the chain is about to run.
TickBoundary == pc = FirstStep

\* A dig command for ant a is in the queue.
DigQueuedFor(a) == \E k \in DOMAIN cmds : cmds[k].type = "dig" /\ cmds[k].ant = a

\* C1: at every tick boundary every in-bounds cell of the grid holds exactly
\* one Element, also after on_ants_add_dead has handled an ant that died while
\* carrying an element, on an Air cell and on a non-Air cell alike.
C1_OneElementPerCell == TickBoundary => \A c \in Cells : grid[c] \in Elements

\* C1, the case: death handling has taken the despawn branch.
C1_DespawnBranchTaken ==
    \E k \in DOMAIN cmds : cmds[k].type = "despawn" /\ cmds[k].by = "on_ants_add_dead"

\* C2: once on_ants_add_dead has run and its commands are applied, every Dead
\* ant has an empty inventory; and no ant ever holds more than one element.
C2_DeadAntsCarryNothing ==
    /\ \A a \in AntSet : ants[a].inventory \in Elements \cup {None}
    /\ TickBoundary => \A a \in AntSet : ants[a].dead => ants[a].inventory = None

\* C3: a Dead ant never acts or moves: ants_walk leaves its position and
\* orientation alone, and neither ants_chamber_pheromone_act nor ants_dig
\* issues a dig command for it.
C3_DeadAntsStayPut ==
    \A a \in AntSet : ants[a].dead => ghost[a].moves = 0 /\ ~DigQueuedFor(a)

\* C3, the part that holds: ants_walk never moves or turns a Dead ant.
C3_WalkSkipsDead == \A a \in AntSet : ants[a].dead => ghost[a].moves = 0

\* C3, the case: ants_walk has passed over a Dead ant that could move.
C3_WalkPassedDead ==
    /\ Running = "ants_walk"
    /\ \E a \in AntSet \ todo : ants[a].dead /\ can_move(ants[a])

\* C4: an ant whose inventory is non-empty never initiates a dig: no dig
\* command is issued for it by ants_dig or by ants_chamber_pheromone_act,
\* whatever the random draws and also with Food next to it.
C4_NoDigWhileCarrying ==
    \A k \in DOMAIN cmds : cmds[k].type = "dig" => ants[cmds[k].ant].inventory = None

\* C4, the case: ants_dig has passed over a carrying ant that can act and has
\* Food in reach.
C4_CarrierNextToFood ==
    /\ Running = "ants_dig"
    /\ \E a \in AntSet \ todo :
          /\ ants[a].inventory # None
          /\ can_act(ants[a])
          /\ food_positions(grid, ants[a]) # {}

\* The systems that move an ant or let it act, and the gravity systems.
MoveActSystems ==
    { "gravity_ants", "ants_stabilize_footing_movement", "ants_hunger_act",
      "ants_regurgitate", "ants_nesting_movement", "ants_nesting_action",
      "ants_nest_expansion", "ants_tunnel_pheromone_move", "ants_tunnel_pheromone_act",
      "ants_chamber_pheromone_act", "ants_walk", "ants_dig", "ants_drop",
      "ants_hunger", "ants_birthing", "ants_act" }

GravitySystems ==
    { "gravity_set_stability", "gravity_elements", "gravity_ants",
      "gravity_mark_stable", "gravity_mark_unstable",
      "gravity_crush", "gravity_stability" }

\* In chain s every system of set A comes before every system of set B.
AllBefore(s, A, B) ==
    \A i, j \in DOMAIN s : s[i] \in A /\ s[j] \in B => i < j

\* The older chain resets the initiative behind its movement and action systems.
LegacyResetsLast == AllBefore(LegacySchedule, MoveActSystems, {"ants_initiative"})

\* C5: in a tick no ant performs more than one state-changing action nor more
\* than one move (a fall uses up the move), and ants_initiative resets the
\* budget only after all movement and action systems of the tick have run.
C5_OneMoveOneAction ==
    /\ \A a \in AntSet : ghost[a].moves + ghost[a].falls <= 1 /\ ghost[a].acts <= 1
    /\ Running \in MoveActSystems => "ants_initiative" \notin Ran
    /\ LegacyResetsLast

\* C5, the case: an ant has moved and dug in this tick, carries what it dug,
\* and ants_drop has passed over it.
C5_MovedAndActed ==
    /\ Running = "ants_drop"
    /\ \E a \in AntSet \ todo :
          /\ ghost[a].moves = 1
          /\ ghost[a].acts = 1
          /\ ants[a].inventory # None
          /\ ~can_act(ants[a])

HungerSystems ==
    { "ants_digestion", "ants_hunger_tick", "ants_hunger_act", "ants_regurgitate",
      "ants_hunger" }

PheromoneSystems ==
    { "pheromone_duration_tick",
      "ants_fade_tunnel_pheromone", "ants_tunnel_pheromone_move",
      "ants_add_tunnel_pheromone", "ants_remove_tunnel_pheromone",
      "ants_tunnel_pheromone_act",
      "ants_fade_chamber_pheromone", "ants_add_chamber_pheromone",
      "ants_remove_chamber_pheromone", "ants_chamber_pheromone_act" }

\* The stages of a tick as the chain orders them; 0 for a system of no stage.
OrderStage(s) ==
    IF s \in GravitySystems THEN 1
    ELSE IF s \in HungerSystems THEN 2
    ELSE IF s = "ants_birthing" THEN 3
    ELSE IF s \in PheromoneSystems THEN 4
    ELSE IF s = "ants_walk" THEN 5
    ELSE IF s \in {"ants_dig", "ants_drop"} THEN 6
    ELSE IF s = "on_ants_add_dead" THEN 7
    ELSE IF s = "ants_initiative" THEN 8
    ELSE 0

\* The stages in the order gravity, movement, hunger, birthing, pheromone
\* pipelines, digging/dropping, initiative reset.
ClaimedStage(s) ==
    IF s \in GravitySystems THEN 1
    ELSE IF s = "ants_walk" THEN 2
    ELSE IF s \in HungerSystems THEN 3
    ELSE IF s = "ants_birthing" THEN 4
    ELSE IF s \in PheromoneSystems THEN 5
    ELSE IF s \in {"ants_dig", "ants_drop", "ants_act"} THEN 6
    ELSE IF s = "ants_initiative" THEN 7
    ELSE 0

\* The stage of system s in order o: "claimed" or "chain".
StageOf(o, s) == IF o = "claimed" THEN ClaimedStage(s) ELSE OrderStage(s)

\* No system that has run in this tick belongs to a later stage than the
\* running one.
RunsInOrder(o) ==
    \A i \in 1 .. pc - 1 :
        StageOf(o, Running) # 0 /\ StageOf(o, NestSchedule[i]) # 0
            => StageOf(o, NestSchedule[i]) <= StageOf(o, Running)

\* The running system finds no command of an earlier stage still queued,
\* commands of the systems in Late apart.
SeesEarlierStages(o, Late) ==
    \A k \in DOMAIN cmds :
        StageOf(o, Running) # 0 /\ StageOf(o, cmds[k].by) # 0 /\ cmds[k].by \notin Late
            => StageOf(o, cmds[k].by) = StageOf(o, Running)

\* Chain s is sorted by stage.
SortedByStage(s, o) ==
    \A i, j \in DOMAIN s :
        StageOf(o, s[i]) # 0 /\ StageOf(o, s[j]) # 0 /\ i < j => StageOf(o, s[i]) <= StageOf(o, s[j])

\* The older chain runs gravity, movement, hunger, birthing, acting, reset.
LegacyInClaimedOrder == SortedByStage(LegacySchedule, "claimed")

BarrierBetween(s, A, B) ==
    \E k \in DOMAIN s :
        /\ s[k] = "apply_deferred"
        /\ \A i \in DOMAIN s : s[i] \in A => i < k
        /\ \A j \in DOMAIN s : s[j] \in B => k < j

\* The chain has a barrier between its gravity systems and the systems that
\* move ants or let them act; the older chain runs gravity ahead of those.
GravityBarrier ==
    BarrierBetween(NestSchedule, GravitySystems, MoveActSystems \ GravitySystems)

LegacyGravityFirst ==
    AllBefore(LegacySchedule, GravitySystems, MoveActSystems \ GravitySystems)

LastGravityIndex ==
    CHOOSE i \in DOMAIN NestSchedule :
        /\ NestSchedule[i] \in GravitySystems
        /\ \A j \in DOMAIN NestSchedule : NestSchedule[j] \in GravitySystems => j <= i

C8_TagLastsThreeSteps ==
    \A a \in AntSet :
        ants[a].chambering /\ ants[a].inventory = None /\ is_underground(ants[a].position) =>
            /\ Running = "ants_chamber_pheromone_act" => ghost[a].seen < ChamberSize
            /\ Running = "ants_remove_chamber_pheromone" /\ ants[a].countdown <= 0
                  => ghost[a].seen = ChamberSize

\* C9: every position change of a tagged ant takes exactly 1 off its
\* countdown, also when the position changes more than once between two runs
\* of ants_fade_chamber_pheromone: right after a run the countdown is the
\* initial magnitude less the number of changes since the tag.
C9_EveryStepCounts ==
    \A a \in AntSet :
        Running = "ants_add_chamber_pheromone" /\ ants[a].chambering
            => ants[a].countdown = ChamberSize - ghost[a].steps

\* C9, the case: a tagged ant has changed position twice since the last run of
\* ants_fade_chamber_pheromone.
C9_TwoStepsBetweenFades ==
    \E a \in AntSet : ants[a].chambering /\ ghost[a].steps >= ghost[a].seen + 2

\* C10: after ants_remove_chamber_pheromone and the barrier behind it, no ant
\* of its query (position or inventory changed) still carries Chambering with
\* a non-empty inventory, or aboveground, or with a countdown of zero or less:
\* each of the three alone removes the tag.
C10_RemovalTriggers ==
    \A a \in AntSet :
        Running = "ants_chamber_pheromone_act" /\ ghost[a].matched /\ ants[a].chambering =>
            /\ ants[a].inventory = None
            /\ is_underground(ants[a].position)
            /\ ants[a].countdown > 0

\* C10, the case: the removal pass has just taken the tag from an ant for its
\* countdown alone: its inventory is empty and it is underground.
C10_RemovedByCountdown ==
    /\ Running = "ants_chamber_pheromone_act"
    /\ \E a \in AntSet :
          /\ ghost[a].matched
          /\ ~ants[a].chambering
          /\ ants[a].inventory = None
          /\ is_underground(ants[a].position)

\* An insert of Chambering for ant a is in queue q.
InsertQueued(q, a) ==
    \E k \in DOMAIN q : q[k].type = "insert_chambering" /\ q[k].ant = a

\* C11: an ant acquires Chambering exactly when its position changed (a new
\* ant's position counts as changed), its inventory is empty and its cell
\* carries a Chamber pheromone; the tag is set to the initial magnitude,
\* overwriting a present countdown; a countdown never exceeds the initial
\* magnitude and a carrying ant never acquires the tag.
C11_Step ==
    \A a \in AntSet :
        /\ ants'[a].position # ants[a].position => changed'[a].add
        /\ Running = "ants_add_chamber_pheromone" =>
              (InsertQueued(cmds', a) <=>
                  /\ changed[a].add
                  /\ ants[a].inventory = None
                  /\ pheromone[ants[a].position] = "Chamber")
        /\ InsertQueued(cmds', a) => Running = "ants_add_chamber_pheromone"
        /\ InsertQueued(cmds, a) /\ cmds' = <<>> =>
              ants'[a].chambering /\ ants'[a].countdown = ChamberSize
        /\ ants'[a].chambering /\ (~ants[a].chambering \/ ants'[a].countdown > ants[a].countdown) =>
              /\ InsertQueued(cmds, a)
              /\ ants[a].inventory = None
        /\ ants'[a].chambering => ants'[a].countdown <= ChamberSize

ChamberDigQueued(q, a) ==
    \E k \in DOMAIN q :
        q[k].type = "dig" /\ q[k].ant = a /\ q[k].by = "ants_chamber_pheromone_act"

\* C13: a dig attempt on Air or out of bounds is a no-op: while
\* ants_chamber_pheromone_act issues no dig for an ant it changes neither the
\* ant nor the grid, and an ant whose queued dig brings it nothing, because
\* the barrier applied another ant's dig of the same cell first, can still act
\* and carries what it carried.
C13_Step ==
    \A a \in AntSet :
        /\ Running = "ants_chamber_pheromone_act" /\ ~ChamberDigQueued(cmds', a) =>
              ants'[a] = ants[a] /\ grid' = grid
        /\ Running = "apply_deferred" /\ ChamberDigQueued(cmds, a)
              /\ ants'[a].inventory = ants[a].inventory =>
              can_act(ants'[a])

C13_DigOfAirIsFree == [][C13_Step]_vars

\* C13, the case: two digs of the same cell wait in the queue of one pass.
C13_TwoDigsOfOneCell ==
    \E j, k \in DOMAIN cmds :
        /\ j < k
        /\ cmds[j].type = "dig" /\ cmds[k].type = "dig"
        /\ cmds[j].by = "ants_chamber_pheromone_act"
        /\ cmds[k].by = "ants_chamber_pheromone_act"
        /\ cmds[j].ant # cmds[k].ant
        /\ cmds[j].pos = cmds[k].pos

----------------------------------------------------------------------------
(* ants_walk, one pass *)

\* ants_walk has turned ant a in this step: the movement is spent and the
\* position is the same.
Reoriented(a) ==
    /\ Running = "ants_walk"
    /\ can_move(ants[a]) /\ ~can_move(ants'[a])
    /\ ants'[a].position = ants[a].position

\* ants_walk is at ant a, which lives, is not birthing and can move.
Walking(a) ==
    /\ Running = "ants_walk"
    /\ a = FirstOf(todo)
    /\ ~ants[a].dead /\ ~ants[a].birthing
    /\ can_move(ants[a])

\* Ant a stands at the top of the single Air column of an all-Dirt grid,
\* facing down, its feet against the Dirt beside it.
AtTopFacingDown(a) ==
    /\ \E x \in 0 .. W - 1 : grid = ColumnGrid(x)
    /\ ants[a].position.y = 0
    /\ get_forward_delta(ants[a].orientation) = Position(0, 1)
    /\ is_element(grid, get_below_position(ants[a].orientation, ants[a].position), "Dirt")

\* C14: in a grid that is all Dirt except one Air column, an ant at the top of
\* the column that faces down and can move, and that ants_walk does not turn
\* at random, is in the cell directly below after the pass, facing down as
\* before; it is not Dead and no element of the grid has changed.
C14_Step ==
    \A a \in AntSet :
        Walking(a) /\ AtTopFacingDown(a) /\ ~Reoriented(a) =>
            /\ ants'[a].position = StraightBelow(ants[a].position)
            /\ ants'[a].orientation = ants[a].orientation
            /\ ~ants'[a].dead
            /\ ants'[a].inventory = ants[a].inventory
            /\ grid' = grid

C14_DescendsColumn == [][C14_Step]_vars

\* C14, the case: ants_walk has moved an ant that faces down to the second
\* cell of the Air column.
C14_OneCellDown ==
    \E a \in AntSet :
        /\ \E x \in 0 .. W - 1 : grid = ColumnGrid(x)
        /\ ants[a].position.y = 1
        /\ get_forward_delta(ants[a].orientation) = Position(0, 1)
        /\ ghost[a].moves = 1
        /\ changed[a].fade

\* C15: every ant that ants_walk processes and that can move spends its
\* movement in the pass, whatever the branch and wherever it stands, the cells
\* next to the border of the world included; an ant that cannot move, or is
\* Dead or Birthing, is left as it is.
C15_Step ==
    \A a \in AntSet :
        /\ Walking(a) => ~can_move(ants'[a])
        /\ Running = "ants_walk" /\ a = FirstOf(todo) /\ ~Walking(a) => ants'[a] = ants[a]

C15_EveryBranchSpendsMovement == [][C15_Step]_vars

\* C15, the case: the pass of ants_walk is over and an ant that lives and is
\* not birthing can still move.
C15_PassedOverAtBorder ==
    /\ Running = "ants_dig"
    /\ todo = AntSet
    /\ \E a \in AntSet :
          /\ ~ants[a].dead /\ ~ants[a].birthing
          /\ can_move(ants[a])
          /\ ~is_within_bounds(get_below_position(ants[a].orientation,
                                   get_ahead_position(ants[a].orientation, ants[a].position)))

\* The cell under the ant's feet, the cell ahead of it and the cell under its
\* feet once it stands in the cell ahead.
UnderFeet(r) == get_below_position(r.orientation, r.position)

Ahead(r) == get_ahead_position(r.orientation, r.position)

UnderFeetAhead(r) == get_below_position(r.orientation, Ahead(r))

\* The cell an ant that faces as r does has come from by a step ahead.
Behind(r) == PosAdd(r.position, [x |-> 0 - get_forward_delta(r.orientation).x,
                                 y |-> 0 - get_forward_delta(r.orientation).y])

\* Nothing forces ant a to turn: it has footing, Air ahead and no bias
\* towards the nest, so it steps ahead unless it turns at random.
AboutToStep(a) ==
    /\ Walking(a)
    /\ ~is_element(grid, UnderFeet(ants[a]), "Air")
    /\ is_element(grid, Ahead(ants[a]), "Air")
    /\ ~is_queen_turning_towards_nest(ants[a])

\* C16 as claimed: an ant that is about to step ahead and would stand over Air
\* there stays on its cell: its position after the pass is its position
\* before.
C16_ClaimedStep ==
    \A a \in AntSet :
        AboutToStep(a) /\ is_element(grid, UnderFeetAhead(ants[a]), "Air") =>
            ants'[a].position = ants[a].position

C16_StaysOnCell == [][C16_ClaimedStep]_vars

\* C16 as the code has it: unless it turns at random, such an ant goes round
\* the edge of the block it stands on: it moves to the cell diagonally ahead
\* and under its feet, rotated into the perpendicular-forward orientation, and
\* has the same block under its feet as before; its movement is spent.
C16_Step ==
    \A a \in AntSet :
        AboutToStep(a) /\ is_element(grid, UnderFeetAhead(ants[a]), "Air") /\ ~Reoriented(a) =>
            /\ ants'[a].position = UnderFeetAhead(ants[a])
            /\ ants'[a].position # ants[a].position
            /\ ants'[a].orientation = rotate_forward(ants[a].orientation)
            /\ UnderFeet(ants'[a]) = UnderFeet(ants[a])
            /\ ~can_move(ants'[a])
            /\ grid' = grid

C16_RoundsTheEdge == [][C16_Step]_vars

\* C16, the case: ants_walk has moved an ant into a cell it cannot have
\* stepped into straight ahead, the cell it would have come from having Air
\* under the feet.
C16_WentRoundEdge ==
    /\ Running = "ants_dig"
    /\ todo = AntSet
    /\ \E a \in AntSet :
          /\ ghost[a].moves = 1
          /\ changed[a].fade
          /\ is_element(grid, get_below_position(ants[a].orientation, Behind(ants[a])), "Air")

\* An ant in cell p with orientation o has Air at its body and an in-bounds
\* cell that is not Air under its feet.
VerifiedValid(o, p) ==
    /\ is_within_bounds(p) /\ grid[p] = "Air"
    /\ is_within_bounds(get_below_position(o, p))
    /\ grid[get_below_position(o, p)] \in Elements \ {"Air"}

\* Orientation n is what the turn cascade allows for an ant in cell p with
\* orientation o.
Cascade(o, p, n) ==
    IF VerifiedValid(rotate_backward(o), p) THEN n = rotate_backward(o)
    ELSE IF VerifiedValid(turn_around(o), p) THEN n = turn_around(o)
    ELSE IF \E i \in AllOrientations : VerifiedValid(i, p) THEN VerifiedValid(n, p)
    ELSE n \in AllOrientations

\* C17: a turn of ants_walk rotates the ant backward when that orientation is
\* valid; else turns it around when that is valid; else picks among the
\* orientations verified valid (Air at the body, an in-bounds cell that is not
\* Air under the feet); else, none being valid, picks among all eight.
C17_Step ==
    \A a \in AntSet :
        Reoriented(a) => Cascade(ants[a].orientation, ants[a].position, ants'[a].orientation)

C17_TurnCascade == [][C17_Step]_vars

\* C17, the case: ants_walk has turned an ant that could neither rotate
\* backward nor turn around into another orientation that is valid.
C17_ThirdChoice ==
    \E a \in AntSet :
        /\ ghost[a].moves = 1
        /\ ghost[a].was \in AllOrientations
        /\ ~changed[a].fade
        /\ ~VerifiedValid(rotate_backward(ghost[a].was), ants[a].position)
        /\ ~VerifiedValid(turn_around(ghost[a].was), ants[a].position)
        /\ VerifiedValid(ants[a].orientation, ants[a].position)

\* Ant a has to turn: it has Air under its feet, the cell ahead is not Air,
\* or it is the queen heading away from the nest.
MustTurn(a) ==
    \/ is_element(grid, UnderFeet(ants[a]), "Air")
    \/ ~is_element(grid, Ahead(ants[a]), "Air")
    \/ is_queen_turning_towards_nest(ants[a])

\* C18: whenever ants_walk re-orients an ant, for want of footing, for a
\* blocked cell ahead, by a random turn or by the queen's bias, the ant stays
\* in its cell: nothing but its orientation and its movement changes, and the
\* grid is left alone.
C18_Step ==
    \A a \in AntSet :
        /\ Walking(a) /\ MustTurn(a) => Reoriented(a)
        /\ Reoriented(a) =>
              /\ ants'[a] = [ants[a] EXCEPT !.orientation = ants'[a].orientation,
                                            !.has_movement = FALSE]
              /\ grid' = grid
              /\ cmds' = cmds

C18_TurnKeepsPosition == [][C18_Step]_vars

\* C18, the case: ants_walk has turned an ant that faced a cell that is not Air.
C18_TurnedAtWall ==
    \E a \in AntSet :
        /\ ghost[a].moves = 1
        /\ ghost[a].was \in AllOrientations \ {ants[a].orientation}
        /\ ~changed[a].fade
        /\ ~can_move(ants[a])
        /\ ~is_element(grid, get_ahead_position(ghost[a].was, ants[a].position), "Air")

\* The Manhattan distance of cell p from the nest of ant record r.
ToNest(r, p) ==
    (IF p.x >= r.nesting.x THEN p.x - r.nesting.x ELSE r.nesting.x - p.x)
        + (IF p.y >= r.nesting.y THEN p.y - r.nesting.y ELSE r.nesting.y - p.y)

\* Ant record r is a queen aboveground that carries nothing, is oriented
\* horizontally and knows where its nest is.
HomingQueen(r) ==
    /\ r.role = "Queen"
    /\ r.position.y <= SurfaceLevel
    /\ r.inventory = None
    /\ r.orientation.angle \in {0, 180}
    /\ r.nesting # NoPos

\* C19: a queen aboveground that carries nothing, is oriented horizontally and
\* knows its nest is, after a pass of ants_walk, no farther from the nest in
\* Manhattan distance than before.
C19_Step ==
    \A a \in AntSet :
        Running = "ants_walk" /\ HomingQueen(ants[a]) =>
            ToNest(ants[a], ants'[a].position) <= ToNest(ants[a], ants[a].position)

C19_QueenNeverFarther == [][C19_Step]_vars

\* C19, the case: ants_walk has turned a queen that had footing and Air ahead
\* and whose step ahead led away from the nest.
C19_QueenTurnedBack ==
    \E a \in AntSet :
        /\ ghost[a].was \in AllOrientations
        /\ HomingQueen([ants[a] EXCEPT !.orientation = ghost[a].was])
        /\ ghost[a].moves = 1
        /\ ~changed[a].fade
        /\ ~can_move(ants[a])
        /\ is_element(grid, get_ahead_position(ghost[a].was, ants[a].position), "Air")
        /\ ~is_element(grid, get_below_position(ghost[a].was, ants[a].position), "Air")
        /\ ToNest(ants[a], get_ahead_position(ghost[a].was, ants[a].position))
              > ToNest(ants[a], ants[a].position)

----------------------------------------------------------------------------
(* ants_dig *)

\* The in-bounds cells ahead of, below and above ant record r that hold Food.
FoodCells(r) ==
    {p \in {get_ahead_position(r.orientation, r.position),
            get_below_position(r.orientation, r.position),
            get_above_position(r.orientation, r.position)} :
        is_within_bounds(p) /\ grid[p] = "Food"}

\* Ant a can act and carries nothing.
Eligible(a) == can_act(ants[a]) /\ ants[a].inventory = None

\* This step of ants_dig appends a dig of one of ant a's Food cells.
IssuesDig(a) ==
    /\ Len(cmds') = Len(cmds) + 1
    /\ cmds'[Len(cmds')].type = "dig"
    /\ cmds'[Len(cmds')].ant = a
    /\ cmds'[Len(cmds')].pos \in FoodCells(ants[a])

\* With this step the pass of the running system over ant a is over.
PassLeaves(a) == a \in todo /\ (pc' # pc \/ a \notin todo')

\* C20: for an ant that can act and carries nothing, with Food in at least
\* one of its in-bounds cells ahead, below and above, the pass of ants_dig
\* issues exactly one dig, of one of those Food cells, and turns the ant
\* around; for an ant with no Food there it issues nothing and leaves the
\* orientation as it is.
C20_Step ==
    \A a \in AntSet :
        Running = "ants_dig" /\ ~panicked' =>
            /\ Len(cmds') <= Len(cmds) + 1
            /\ Eligible(a) /\ FoodCells(ants[a]) # {} /\ PassLeaves(a) =>
                  /\ IssuesDig(a)
                  /\ ants'[a].orientation = turn_around(ants[a].orientation)
            /\ ~(Eligible(a) /\ FoodCells(ants[a]) # {}) =>
                  /\ ~IssuesDig(a)
                  /\ ants'[a].orientation = ants[a].orientation

C20_FoodIsDug == [][C20_Step]_vars

\* C20, the case: the pass of ants_dig is over, nothing is queued, and an ant
\* that can act and carries nothing has Food next to it.
C20_FoodLeftLying ==
    /\ Running = "ants_drop"
    /\ todo = AntSet
    /\ cmds = <<>>
    /\ \E a \in AntSet : Eligible(a) /\ FoodCells(ants[a]) # {}

----------------------------------------------------------------------------
(* Priority of the action systems *)

\* The priority class of an action system: 1 hunger, 2 birthing and nesting,
\* 3 pheromone-directed digging, 4 default digging and dropping; 0 for a
\* system that is no action system.
ActionPriority(s) ==
    IF s \in {"ants_hunger_act", "ants_regurgitate", "ants_hunger"} THEN 1
    ELSE IF s \in {"ants_birthing", "ants_nesting_action", "ants_nest_expansion"} THEN 2
    ELSE IF s \in {"ants_tunnel_pheromone_act", "ants_chamber_pheromone_act"} THEN 3
    ELSE IF s \in {"ants_dig", "ants_drop", "ants_act"} THEN 4
    ELSE 0

\* The action systems of chain s run in priority order.
InPriorityOrder(s) ==
    \A i, j \in DOMAIN s :
        ActionPriority(s[i]) # 0 /\ ActionPriority(s[j]) # 0 /\ i < j
            => ActionPriority(s[i]) <= ActionPriority(s[j])

BothChainsInPriorityOrder == InPriorityOrder(NestSchedule) /\ InPriorityOrder(LegacySchedule)

\* This step appends a command for ant a to the queue.
IssuesFor(a) ==
    /\ Len(cmds') > Len(cmds)
    /\ \E k \in Len(cmds) + 1 .. Len(cmds') : cmds'[k].ant = a

\* C21: the action systems run in the order hunger, birthing and nesting,
\* pheromone-directed digging, default digging and dropping, in both chains,
\* and an action system does nothing with an ant whose action is already
\* consumed: it issues no command for it and leaves it as it is.
C21_Step ==
    /\ BothChainsInPriorityOrder
    /\ \A a \in AntSet :
          ActionPriority(Running) # 0 /\ ~can_act(ants[a]) =>
              /\ ~IssuesFor(a)
              /\ ants'[a] = ants[a]

C21_HigherPriorityWins == [][C21_Step]_vars

\* C21, the case: an ant has dug for the Chamber pheromone in this tick and
\* ants_drop has passed over it, although it carries the Dirt and has Air
\* ahead.
C21_DiggerKeepsItsLoad ==
    /\ Running = "ants_drop"
    /\ \E a \in AntSet \ todo :
          /\ ~can_act(ants[a])
          /\ ants[a].inventory = "Dirt"
          /\ ~ants[a].dead
          /\ is_element(grid, get_ahead_position(ants[a].orientation, ants[a].position), "Air")
          /\ \A k \in DOMAIN cmds : cmds[k].ant # a

----------------------------------------------------------------------------
(* Fast-forward catch-up *)

\* This run of FixedUpdate starts a fast-forward.
EntersFastForward == ~is_fast_forwarding /\ is_fast_forwarding'

\* The ticks that run in s seconds at the default tick period.
DefaultTicksIn(s) == s * (UnitsPerSecond \div DEFAULT_TICK_RATE)

\* C22: the ticks play_time schedules for an accumulated time of S whole
\* seconds are the ticks that run in S seconds at the default tick period,
\* never fewer, and starting the fast-forward leaves the place in the chain
\* of systems as it is.
C22_Step ==
    EntersFastForward /\ fixed_time.accumulated.wraps = 0 =>
        LET S == as_secs(expend(fixed_time).accumulated) IN
            /\ pending_ticks' = DefaultTicksIn(S)
            /\ pending_ticks' >= DefaultTicksIn(S)
            /\ pc' = pc

C22_CatchUpMatchesDefault == [][C22_Step]_vars

\* C22, the case: after MaxAway seconds away a fast-forward has started in
\* the first run of FixedUpdate with more ticks pending than that time runs
\* at the default tick period.
C22_MoreTicksThanAway ==
    /\ is_fast_forwarding
    /\ tick = 1
    /\ ghost.advance = from_secs(MaxAway)
    /\ pending_ticks > DefaultTicksIn(MaxAway)

----------------------------------------------------------------------------
(* Digs wait for the barrier *)

DigSystems == {"ants_dig", "ants_chamber_pheromone_act"}

\* C23: during a pass of ants_dig or ants_chamber_pheromone_act the grid and
\* every inventory stay as they are; a system other than the barrier sees
\* no dig in the queue but its own; and the barrier applies every queued dig:
\* the cell is Air afterwards, one of the ants that dug it holds its element
\* and the queue is empty.
C23_Step ==
    /\ Running \in DigSystems =>
          /\ grid' = grid
          /\ \A a \in AntSet : ants'[a].inventory = ants[a].inventory
    /\ Running # "apply_deferred" =>
          \A k \in DOMAIN cmds : cmds[k].type = "dig" => cmds[k].by = Running
    /\ Running = "apply_deferred" =>
          /\ cmds' = <<>>
          /\ \A k \in DOMAIN cmds :
                cmds[k].type = "dig" =>
                    /\ grid'[cmds[k].pos] = "Air"
                    /\ \E j \in DOMAIN cmds :
                          /\ cmds[j].type = "dig"
                          /\ cmds[j].pos = cmds[k].pos
                          /\ ants'[cmds[j].ant].inventory = grid[cmds[k].pos]

C23_DigsWaitForBarrier == [][C23_Step]_vars

\* C23, the case: in the middle of a pass a dig of one ant is queued, the
\* cell still holds its element, and another ant is yet to be processed.
C23_QueuedDigUnseen ==
    /\ Running \in DigSystems
    /\ todo # {} /\ todo # AntSet
    /\ \E k \in DOMAIN cmds :
          /\ cmds[k].type = "dig"
          /\ cmds[k].ant \notin todo
          /\ grid[cmds[k].pos] \notin {"Air", Despawned}
          /\ ants[cmds[k].ant].inventory = None

----------------------------------------------------------------------------
(* Every ant next to Food digs *)

\* C24: an ant that can act, carries nothing and has Food in an in-bounds
\* cell ahead, below or above does not leave a pass of ants_dig without its
\* dig being issued, whatever the other ants are and in whatever order they
\* are taken; and the pass does not end while there are ants it has not
\* processed.
C24_Step ==
    Running = "ants_dig" /\ ~panicked' =>
        /\ \A a \in AntSet :
              Eligible(a) /\ FoodCells(ants[a]) # {} /\ PassLeaves(a) => IssuesDig(a)
        /\ Cardinality(todo) > 1 => pc' = pc

C24_EachDigsOnItsOwn == [][C24_Step]_vars

\* C24, the case: a pass of ants_dig begins with two ants that can act and
\* carry nothing, one with Food next to it and one with none.
C24_DiggerAndIdler ==
    /\ Running = "ants_dig"
    /\ todo = AntSet
    /\ \E a, b \in AntSet :
          /\ Eligible(a) /\ FoodCells(ants[a]) # {}
          /\ Eligible(b) /\ FoodCells(ants[b]) = {}
          /\ DigKind(grid, ants[b]) = "return"

----------------------------------------------------------------------------
(* Two digs of one cell *)

\* Commands j and k of queue q are digs of one cell by two ants, j the first.
SameCellDigs(q, j, k) ==
    /\ j < k
    /\ q[j].type = "dig" /\ q[k].type = "dig"
    /\ q[j].pos = q[k].pos
    /\ q[j].ant # q[k].ant

\* C25: when two ants dig the same cell in one pass of ants_dig or
\* ants_chamber_pheromone_act, the ant whose dig comes second in the queue,
\* and so fails, keeps its action and its orientation where the dig is issued
\* and at the barrier; after the barrier at most one of the two carries
\* something and the cell holds Air.
C25_Step ==
    /\ Running \in DigSystems /\ Len(cmds') = Len(cmds) + 1 =>
          \A j \in DOMAIN cmds :
              SameCellDigs(cmds', j, Len(cmds')) =>
                  LET b == cmds'[Len(cmds')].ant IN
                      /\ ants'[b].has_action = ants[b].has_action
                      /\ ants'[b].orientation = ants[b].orientation
    /\ Running = "apply_deferred" =>
          \A j, k \in DOMAIN cmds :
              SameCellDigs(cmds, j, k) =>
                  LET a == cmds[j].ant
                      b == cmds[k].ant
                  IN /\ ants'[a].inventory = None \/ ants'[b].inventory = None
                     /\ grid'[cmds[j].pos] = "Air"
                     /\ ants'[b].has_action = ants[b].has_action
                     /\ ants'[b].orientation = ants[b].orientation

C25_LoserKeepsInitiative == [][C25_Step]_vars

\* C25, the case: the barrier has applied two digs of the Dirt block by the
\* two ants next to it: the block is gone, one ant carries it, the other
\* carries nothing and cannot act.
C25_LoserCannotAct ==
    /\ Running = "ants_walk" /\ todo = AntSet
    /\ grid[Position(1, TrenchLevel)] = "Air"
    /\ \E a, b \in AntSet :
          /\ a # b
          /\ ants[a].inventory = "Dirt"
          /\ ants[b].inventory = None /\ ~can_act(ants[b])
          /\ ants[a].chambering /\ ants[b].chambering

----------------------------------------------------------------------------
(* The tag when ants_chamber_pheromone_act runs *)

\* C26: whenever ants_chamber_pheromone_act runs, every ant with the
\* Chambering tag carries nothing, is underground and has a countdown of at
\* least 1, so the inventory safeguard of the system is never taken.
C26_TaggedAntsAreFit ==
    Running = "ants_chamber_pheromone_act" =>
        \A a \in AntSet :
            ants[a].chambering =>
                /\ ants[a].inventory = None
                /\ is_underground(ants[a].position)
                /\ ants[a].countdown >= 1

\* C26, the case: ants_chamber_pheromone_act runs in a later tick with one ant
\* tagged and the other one, which has dug, carrying Dirt and no longer
\* tagged.
C26_TagGoneWithLoad ==
    /\ Running = "ants_chamber_pheromone_act"
    /\ tick > 0
    /\ \E a, b \in AntSet :
          /\ ants[a].chambering
          /\ ~ants[b].chambering /\ ants[b].inventory = "Dirt"

----------------------------------------------------------------------------
(* One pass of ants_chamber_pheromone_act *)

\* The digs queued for ant a in queue q.
DigsFor(q, a) == {k \in DOMAIN q : q[k].type = "dig" /\ q[k].ant = a}

\* The cell ahead of ant record r can be dug by ants_chamber_pheromone_act.
AheadDiggable(r) ==
    /\ ~is_facing_north(r.orientation)
    /\ try_dig(grid, get_ahead_position(r.orientation, r.position)) = "dig"

\* C27: a pass of ants_chamber_pheromone_act queues at most one dig for an
\* ant; the dig is of the cell ahead where that cell can be dug, and of the
\* cell above otherwise; the ant's action is consumed exactly where a dig is
\* queued for it; position and orientation stay as they are.
C27_Step ==
    Running = "ants_chamber_pheromone_act" /\ ~panicked' =>
        \A a \in AntSet :
            /\ Cardinality(DigsFor(cmds', a)) <= 1
            /\ ants'[a].position = ants[a].position
            /\ ants'[a].orientation = ants[a].orientation
            /\ IssuesFor(a) <=> can_act(ants[a]) /\ ~can_act(ants'[a])
            /\ ~IssuesFor(a) => ants'[a] = ants[a]
            /\ IssuesFor(a) =>
                  LET r == ants[a]
                      c == cmds'[Len(cmds')]
                  IN /\ c.type = "dig" /\ c.ant = a
                     /\ c.pos = IF AheadDiggable(r)
                                THEN get_ahead_position(r.orientation, r.position)
                                ELSE get_above_position(r.orientation, r.position)

C27_OneDigAheadFirst == [][C27_Step]_vars

\* C27, the case: a dig of the cell ahead is queued for an ant that cannot
\* act any more and whose cell above could have been dug as well.
C27_AheadBeforeAbove ==
    /\ Running = "ants_chamber_pheromone_act"
    /\ \E a \in AntSet :
          LET r == ants[a] IN
              /\ ~can_act(r)
              /\ \E k \in DigsFor(cmds, a) :
                    cmds[k].pos = get_ahead_position(r.orientation, r.position)
              /\ ~is_rightside_up(r.orientation)
              /\ try_dig(grid, get_above_position(r.orientation, r.position)) = "dig"

----------------------------------------------------------------------------
(* Where ants_walk puts an ant, and what it leaves alone *)

\* This step of ants_walk has written the position of ant a.
Moved(a) == Running = "ants_walk" /\ ants'[a].position # ants[a].position

\* C28: an ant that ants_walk has moved is on an in-bounds cell that holds
\* Air, and an ant whose cell ahead is out of bounds or holds no Air is not
\* moved.
C28_Step ==
    \A a \in AntSet :
        /\ Moved(a) =>
              /\ is_within_bounds(ants'[a].position)
              /\ grid'[ants'[a].position] = "Air"
        /\ ~is_element(grid, Ahead(ants[a]), "Air") => ~Moved(a)

C28_MovesIntoAir == [][C28_Step]_vars

\* C28, the case: the pass is over and the ant has been moved to a cell of
\* the grid's first or last column, which holds Air.
C28_MovedToTheBorder ==
    /\ Running = "ants_dig"
    /\ \E a \in AntSet :
          /\ ghost[a].moves = 1
          /\ changed[a].add
          /\ ants[a].position.x \in {0, W - 1}
          /\ is_element(grid, ants[a].position, "Air")

\* C29: an ant that ants_walk has moved, straight ahead or round the edge of
\* its block, has an in-bounds cell under its feet that holds no Air.
C29_Step ==
    \A a \in AntSet :
        Moved(a) =>
            /\ is_within_bounds(UnderFeet(ants'[a]))
            /\ grid'[UnderFeet(ants'[a])] # "Air"

C29_GroundUnderFeet == [][C29_Step]_vars

\* C29, the case: the pass is over and the ant has been moved; it heads
\* straight down with the side of a block under its feet.
C29_MovedDownTheSide ==
    /\ Running = "ants_dig"
    /\ \E a \in AntSet :
          /\ ghost[a].moves = 1
          /\ changed[a].add
          /\ get_forward_delta(ants[a].orientation) = Position(0, 1)
          /\ is_within_bounds(UnderFeet(ants[a]))
          /\ grid[UnderFeet(ants[a])] \in {"Dirt", "Sand", "Food"}

\* C30: a pass of ants_walk leaves the grid, the pheromones, the command
\* queue and, of every ant, all but position, orientation and movement as
\* they are: inventory and action among them.
C30_Step ==
    Running = "ants_walk" /\ ~panicked' =>
        /\ grid' = grid
        /\ pheromone' = pheromone
        /\ cmds' = cmds
        /\ \A a \in AntSet :
              /\ ants'[a].inventory = ants[a].inventory
              /\ ants'[a].has_action = ants[a].has_action
              /\ [ants'[a] EXCEPT !.position = ants[a].position,
                                  !.orientation = ants[a].orientation,
                                  !.has_movement = ants[a].has_movement] = ants[a]

C30_WalkWritesOnlyTheAnt == [][C30_Step]_vars

\* C30, the case: the pass is over, the ant has been moved or turned, and it
\* still carries its Sand and can still act.
C30_LoadAndActionKept ==
    /\ Running = "ants_dig"
    /\ \E a \in AntSet :
          /\ ghost[a].moves = 1
          /\ ~can_move(ants[a])
          /\ ants[a].inventory = "Sand"
          /\ can_act(ants[a])

----------------------------------------------------------------------------
(* The course of a fast-forward *)

\* This step is a run of FixedUpdate, and so a call of play_time.
Calls == tick' = tick + 1

\* C31: in a fast-forward every call of play_time with ticks pending takes
\* exactly one of them and leaves flag and period; the call with none
\* pending clears the flag and restores the default period; no call in
\* between raises the count; and the fast-forward ends with the call that
\* is number N + 1 after the one that started it with N ticks.
C31_Step ==
    Calls /\ is_fast_forwarding =>
        /\ pending_ticks > 0 =>
              /\ pending_ticks' = pending_ticks - 1
              /\ is_fast_forwarding'
              /\ fixed_time'.period = fixed_time.period
        /\ pending_ticks = 0 =>
              /\ ~is_fast_forwarding'
              /\ pending_ticks' = 0
              /\ fixed_time'.period = from_secs_f32(DEFAULT_TICK_RATE)
        /\ pending_ticks' <= pending_ticks
        /\ ghost'.scheduled = ghost.scheduled
        /\ ghost'.calls - 1 = ghost.scheduled - pending_ticks
        /\ ~is_fast_forwarding' <=> ghost'.calls - 1 = ghost.scheduled

C31_EndsAfterNPlusOne == [][C31_Step]_vars

\* C31, the case: a fast-forward of N > 0 ticks has ended with call N + 1.
C31_FastForwardOver ==
    /\ ~is_fast_forwarding
    /\ ghost.scheduled > 0
    /\ ghost.calls - 1 = ghost.scheduled
    /\ pending_ticks = 0

\* C32: the pending count is never negative, ticks are pending only while
\* the flag is set, and the period is the fast-forward period exactly while
\* the flag is set.
C32_FlagPeriodAndCount ==
    /\ pending_ticks >= 0
    /\ pending_ticks > 0 => is_fast_forwarding
    /\ fixed_time.period = from_secs_f32(FAST_FORWARD_TICK_RATE) <=> is_fast_forwarding

\* C32, the case: the last pending tick is gone and the flag is still set,
\* with the fast-forward period.
C32_LastCallAhead ==
    /\ is_fast_forwarding
    /\ pending_ticks = 0
    /\ ghost.calls = ghost.scheduled
    /\ fixed_time.period = from_secs_f32(FAST_FORWARD_TICK_RATE)

----------------------------------------------------------------------------
(* What setup_fast_forward_time adds *)

\* C33: setup_fast_forward_time adds at most a day to the accumulated time,
\* whatever the last-save timestamp, one later than now included, and
\* nothing for the timestamp 0.
C33_AtMostOneDay ==
    /\ DurationGE(from_secs(SECONDS_PER_DAY), ghost.advance)
    /\ ghost.last_save_time = 0 => ghost.advance = from_secs(0)

\* C33, the case: the last save lies after now, the seconds added have
\* wrapped, and the first call of play_time has started a fast-forward of
\* isize::MAX ticks.
C33_ClockSetBack ==
    /\ ghost.last_save_time # 0
    /\ ghost.advance.wraps > 0 /\ ghost.advance.secs < 0
    /\ tick = 1
    /\ is_fast_forwarding
    /\ pending_ticks = ISIZE_MAX

----------------------------------------------------------------------------
(* The paused story *)

\* The systems of the chain under the run condition, and the others.
PausedSystems == {NestSchedule[i] : i \in {j \in DOMAIN NestSchedule : UnderRunIf(j)}}
UnpausedSystems == {NestSchedule[i] : i \in {j \in DOMAIN NestSchedule : ~UnderRunIf(j)}}

\* The systems the pause is to switch off, and those it is to leave running.
SimulationSystems ==
    (UNION {{s[i] : i \in DOMAIN s} :
               s \in {GravityChain, FootingChain, HungerChain, BirthingChain, NestingChain,
                      TunnelChain, ChamberChain, WalkDigDropChain, DeathChain,
                      InitiativeChain}}
        \cup {"update_story_elapsed_ticks"}) \ {"apply_deferred"}
AlwaysSystems ==
    {"process_external_event", "update_element_exposure",
     "update_story_real_world_time", "set_rate_of_time"}

\* C34: while the story is Paused the gravity, movement and action, death,
\* initiative and elapsed-tick systems are switched off and the
\* external-event, exposure, real-world-time and rate-of-time systems are
\* not; no step of a paused story changes the elapsed ticks, an ant, the
\* grid, the command queue or the place in the chain.
C34_Step ==
    /\ SimulationSystems \subseteq PausedSystems \ UnpausedSystems
    /\ AlwaysSystems \subseteq UnpausedSystems \ PausedSystems
    /\ story_playback_state = "Paused" =>
          UNCHANGED <<tick, pc, todo, grid, pheromone, ants, changed, cmds>>

C34_PauseHoldsTheSimulation == [][C34_Step]_vars

\* C34, the case: the story is Paused after its first tick, with an ant
\* that carries the Chambering tag and has its countdown running.
C34_PausedMidStory ==
    /\ story_playback_state = "Paused"
    /\ tick > 0
    /\ \E a \in AntSet : ants[a].chambering /\ ants[a].countdown > 0

----------------------------------------------------------------------------
(* Above and below the surface *)

\* The positions put to the nest: those of the grid and a border around it.
ProbePositions == {Position(x, y) : x \in -1 .. W, y \in -1 .. H}

\* C35: for every position, that of each ant included, exactly one of
\* is_aboveground and is_underground holds, and is_underground holds exactly
\* when y is greater than the surface level, so that a position on the surface
\* row is aboveground.
C35_AboveOrBelow ==
    \A p \in ProbePositions \cup {ants[a].position : a \in AntSet} :
        /\ is_aboveground(p) # is_underground(p)
        /\ is_underground(p) <=> p.y > SurfaceLevel
        /\ p.y = SurfaceLevel => is_aboveground(p)

\* C35, the case: after a tick an ant stands on the surface row, where it is
\* aboveground and not underground.
C35_OnTheSurfaceRow ==
    /\ tick > 0
    /\ \E a \in AntSet :
          /\ ants[a].position.y = SurfaceLevel
          /\ is_aboveground(ants[a].position) /\ ~is_underground(ants[a].position)

----------------------------------------------------------------------------
(* The cache of the nest *)

\* The cache entry for position p.
CacheAt(elements_cache, p) == elements_cache[p.y + 1][p.x + 1]

\* The elements of the query that are at cell c.
ElementsAt(elements, c) == {k \in DOMAIN elements : elements[k].position = c}

\* C36: once setup_nest_grid has run, the cache entry for the position of
\* every element is that element, and when every cell of the grid has exactly
\* one element no entry of the cache is the placeholder.
C36_CacheAgreesWithElements ==
    ghost.elements_cache # NoGrid =>
        /\ \A k \in DOMAIN ghost.elements :
              CacheAt(ghost.elements_cache, ghost.elements[k].position)
                  = ghost.elements[k].entity
        /\ (\A c \in Cells : Cardinality(ElementsAt(ghost.elements, c)) = 1) =>
              \A c \in Cells : CacheAt(ghost.elements_cache, c) # PLACEHOLDER

\* C36, the case: the cache has been built for a world with one element in
\* every cell whose entities are not listed row by row.
C36_FullGridCached ==
    /\ ghost.elements_cache # NoGrid
    /\ Len(ghost.elements) = W * H
    /\ \A c \in Cells : Cardinality(ElementsAt(ghost.elements, c)) = 1
    /\ ghost.elements[2].position = Position(0, 1)

====
